---- MODULE Spec2Model ----
(***************************************************************************)
(* Model of the AI triage agent: the ticket classifier                     *)
(* (app/services/model_service.py), the routing table                      *)
(* (app/utils/config.py), the Jira and Slack adapters                      *)
(* (app/services/jira_service.py, app/services/slack_service.py) and the   *)
(* request handlers route_ticket / route_tickets_batch                     *)
(* (app/routes/route.py), the watsonx adapter                              *)
(* (app/services/watsonx_service.py) with the handler classify_ticket      *)
(* (app/routes/classify.py), the Gmail reader                              *)
(* (app/services/gmail_service.py) and the start-up hook and health check  *)
(* (app/main.py).                                                          *)
(*                                                                         *)
(* Texts are sequences of characters, so that str.lower() and the          *)
(* substring test `keyword in text_lower` are computed, not assumed.       *)
(* Floating-point scores are modelled as exact fractions num/den: the      *)
(* keyword weight 0.3 is 3/10, the clip min(score, 1.0) is min(n, 10)/10.  *)
(* An exception is a result [raised |-> TRUE, ...] that the caller either  *)
(* handles (try/except) or passes on.                                      *)
(***************************************************************************)
EXTENDS Integers, Sequences, FiniteSets, Bags, TLC

VARIABLES
    torch_available,         \* TORCH_AVAILABLE, fixed when the module is imported
    settings,                \* the Settings object of app.utils.config
    _classifier_instance,    \* the global TicketClassifier, or Null
    _jira_service_instance,  \* the global JiraService, or Null
    _slack_service_instance, \* the global SlackService, or Null
    _watsonx_service_instance, \* the global WatsonXService, or Null
    _gmail_service_instance, \* the global GmailService, or Null
    pending,                 \* the bag of requests accepted by the event loop
                             \* and not yet handled (concurrent requests)
    constructions,           \* how often each service class has been
                             \* instantiated by its getter (history)
    request,                 \* the call or HTTP request in flight, or Null
    response,                \* the outcome of the last call handled, or Null
    previous                 \* the outcome of the preceding classify call on
                             \* the text now in flight (history), or Null

vars == <<torch_available, settings, _classifier_instance,
          _jira_service_instance, _slack_service_instance,
          _watsonx_service_instance, _gmail_service_instance,
          pending, constructions, request, response, previous>>

-----------------------------------------------------------------------------
(* Bounds of the model. *)

\* texts are built from at most MaxWords vocabulary phrases
MaxWords == 2
\* a batch holds at most MaxBatch tickets
MaxBatch == 2
\* at most MaxFaults collaborator calls fail while one request is handled
MaxFaults == 2
\* number of distinct classification heads a model load can produce
NumWeights == 2
\* a message listing holds at most MaxMessages messages
MaxMessages == 2
\* at most MaxPending requests are waiting for the event loop at a time
MaxPending == 2

-----------------------------------------------------------------------------
(* Python values. *)

\* None where a dict or an object is expected
Null == [null |-> TRUE]
\* None where a string is expected
None == "None"

Ok(v) == [raised |-> FALSE, value |-> v]
Raise(e) == [raised |-> TRUE, error |-> e]

Min(a, b) == IF a <= b THEN a ELSE b

RECURSIVE SumSeq(_)
SumSeq(s) == IF s = <<>> THEN 0 ELSE Head(s) + SumSeq(Tail(s))

\* the dict {k: Value(k) for k in keys}, built key by key
Dict(keys, Value(_)) ==
    LET build[i \in 0..Len(keys)] ==
            IF i = 0 THEN <<>>
            ELSE build[i - 1] @@ (keys[i] :> Value(keys[i]))
    IN  build[Len(keys)]

\* a float in [0,1] produced by the classifier, as an exact fraction
Frac(n, d) == [num |-> n, den |-> d]
FracLess(a, b) == a.num * b.den < b.num * a.den

-----------------------------------------------------------------------------
(* Strings as character sequences. *)

LowerOf ==
    ("A" :> "a") @@ ("B" :> "b") @@ ("C" :> "c") @@ ("D" :> "d") @@
    ("E" :> "e") @@ ("F" :> "f") @@ ("G" :> "g") @@ ("H" :> "h") @@
    ("I" :> "i") @@ ("J" :> "j") @@ ("K" :> "k") @@ ("L" :> "l") @@
    ("M" :> "m") @@ ("N" :> "n") @@ ("O" :> "o") @@ ("P" :> "p") @@
    ("Q" :> "q") @@ ("R" :> "r") @@ ("S" :> "s") @@ ("T" :> "t") @@
    ("U" :> "u") @@ ("V" :> "v") @@ ("W" :> "w") @@ ("X" :> "x") @@
    ("Y" :> "y") @@ ("Z" :> "z")

UpperCase == DOMAIN LowerOf

\* str.lower(): character by character
lower(s) ==
    <<>> \o [i \in 1..Len(s) |->
                IF s[i] \in UpperCase THEN LowerOf[s[i]] ELSE s[i]]

\* the Python test `sub in s` on strings
In(sub, s) ==
    \E i \in 0..(Len(s) - Len(sub)) : \A j \in 1..Len(sub) : s[i + j] = sub[j]

-----------------------------------------------------------------------------
(* TicketClassifier: the keyword table of _classify_mock. *)

kw_payment == <<"p","a","y","m","e","n","t">>
kw_invoice == <<"i","n","v","o","i","c","e">>
kw_billing == <<"b","i","l","l","i","n","g">>
kw_charge == <<"c","h","a","r","g","e">>
kw_refund == <<"r","e","f","u","n","d">>
kw_subscription == <<"s","u","b","s","c","r","i","p","t","i","o","n">>
kw_price == <<"p","r","i","c","e">>
kw_cost == <<"c","o","s","t">>
kw_error == <<"e","r","r","o","r">>
kw_bug == <<"b","u","g">>
kw_crash == <<"c","r","a","s","h">>
kw_not_working == <<"n","o","t"," ","w","o","r","k","i","n","g">>
kw_broken == <<"b","r","o","k","e","n">>
kw_issue == <<"i","s","s","u","e">>
kw_problem == <<"p","r","o","b","l","e","m">>
kw_technical == <<"t","e","c","h","n","i","c","a","l">>
kw_login == <<"l","o","g","i","n">>
kw_password == <<"p","a","s","s","w","o","r","d">>
kw_access == <<"a","c","c","e","s","s">>
kw_account == <<"a","c","c","o","u","n","t">>
kw_permission == <<"p","e","r","m","i","s","s","i","o","n">>
kw_unauthorized == <<"u","n","a","u","t","h","o","r","i","z","e","d">>
kw_locked == <<"l","o","c","k","e","d">>
kw_defect == <<"d","e","f","e","c","t">>
kw_feature == <<"f","e","a","t","u","r","e">>
kw_request == <<"r","e","q","u","e","s","t">>
kw_suggestion == <<"s","u","g","g","e","s","t","i","o","n">>
kw_improvement == <<"i","m","p","r","o","v","e","m","e","n","t">>
kw_enhancement == <<"e","n","h","a","n","c","e","m","e","n","t">>
kw_add == <<"a","d","d">>

\* TicketClassifier.CATEGORIES, in list order
CATEGORIES ==
    <<"billing", "technical", "access", "general", "bug_report", "feature_request">>

CategorySet == {CATEGORIES[i] : i \in 1..Len(CATEGORIES)}

keywords ==
    [billing |-> <<kw_payment, kw_invoice, kw_billing, kw_charge, kw_refund,
                   kw_subscription, kw_price, kw_cost>>,
     technical |-> <<kw_error, kw_bug, kw_crash, kw_not_working, kw_broken,
                     kw_issue, kw_problem, kw_technical>>,
     access |-> <<kw_login, kw_password, kw_access, kw_account, kw_permission,
                  kw_unauthorized, kw_locked>>,
     bug_report |-> <<kw_bug, kw_error, kw_crash, kw_broken, kw_defect>>,
     feature_request |-> <<kw_feature, kw_request, kw_suggestion,
                           kw_improvement, kw_enhancement, kw_add>>,
     general |-> <<>>]

\* `score += 0.3`, in tenths
KeywordWeight == 3
\* the 1.0 of `min(score, 1.0)` and of `scores["general"] = 1.0`, in tenths
ScoreOne == 10

\* position of a category in CATEGORIES
IndexOf(category) == CHOOSE i \in 1..Len(CATEGORIES) : CATEGORIES[i] = category

\* RawScore with `keyword == text_lower` in place of `keyword in text_lower`
RawScore_equality(category, text_lower) ==
    Min(KeywordWeight *
            Cardinality({i \in 1..Len(keywords[category]) :
                            keywords[category][i] = text_lower}),
        ScoreOne)

\* RawScore without `min(score, 1.0)`
RawScore_unclipped(category, text_lower) ==
    KeywordWeight *
        Cardinality({i \in 1..Len(keywords[category]) :
                        In(keywords[category][i], text_lower)})

\* lines 90-96: 0.3 for every keyword of the category found in the text,
\* clipped to 1.0
RawScore(category, text_lower) ==
    Min(KeywordWeight *
            Cardinality({i \in 1..Len(keywords[category]) :
                            In(keywords[category][i], text_lower)}),
        ScoreOne)

\* sum(scores.values())
Total(raw) == SumSeq([i \in 1..Len(CATEGORIES) |-> raw[CATEGORIES[i]]])

\* Normalize without the division by the total
Normalize_noDivision(raw) ==
    LET total == Total(raw)
    IN  IF total > 0
        THEN Dict(CATEGORIES, LAMBDA c : Frac(raw[c], ScoreOne))
        ELSE Dict(CATEGORIES,
                  LAMBDA c : IF c = "general" THEN Frac(ScoreOne, ScoreOne)
                                              ELSE Frac(raw[c], ScoreOne))

\* Normalize without the else branch that sets scores["general"]
Normalize_noCatchAll(raw) ==
    LET total == Total(raw)
    IN  IF total > 0
        THEN Dict(CATEGORIES, LAMBDA c : Frac(raw[c], total))
        ELSE Dict(CATEGORIES, LAMBDA c : Frac(raw[c], ScoreOne))

\* lines 98-103: divide by the total, or give everything to "general"
Normalize(raw) ==
    LET total == Total(raw)
    IN  IF total > 0
        THEN Dict(CATEGORIES, LAMBDA c : Frac(raw[c], total))
        ELSE Dict(CATEGORIES,
                  LAMBDA c : IF c = "general" THEN Frac(ScoreOne, ScoreOne)
                                              ELSE Frac(raw[c], ScoreOne))

\* the last category, in the order of CATEGORIES, whose score is maximal
ArgMaxFirst_lastWins(scores) ==
    CATEGORIES[CHOOSE i \in 1..Len(CATEGORIES) :
        /\ \A j \in 1..Len(CATEGORIES) :
              ~FracLess(scores[CATEGORIES[i]], scores[CATEGORIES[j]])
        /\ \A j \in (i + 1)..Len(CATEGORIES) :
              FracLess(scores[CATEGORIES[j]], scores[CATEGORIES[i]])]

\* max(scores.items(), key=...) and numpy argmax: the first category, in the
\* order of CATEGORIES, whose score is maximal
ArgMaxFirst(scores) ==
    CATEGORIES[CHOOSE i \in 1..Len(CATEGORIES) :
        /\ \A j \in 1..Len(CATEGORIES) :
              ~FracLess(scores[CATEGORIES[i]], scores[CATEGORIES[j]])
        /\ \A j \in 1..(i - 1) :
              FracLess(scores[CATEGORIES[j]], scores[CATEGORIES[i]])]

\* the dict returned by a classification (lines 105-113 and 146-161)
Classification(scores, model) ==
    LET top_category == ArgMaxFirst(scores)
    IN  [category |-> top_category,
         confidence |-> scores[top_category],
         scores |-> scores,
         model |-> model]

_classify_mock(ticket_text) ==
    LET text_lower == lower(ticket_text)
    IN  Classification(
            Normalize(Dict(CATEGORIES, LAMBDA c : RawScore(c, text_lower))),
            "mock-classifier")

-----------------------------------------------------------------------------
(* TicketClassifier: model mode.  The transformer is a library; its forward *)
(* pass is a fixed function of the loaded weights and of the text.          *)

\* number of distinct logit values of the stand-in forward pass
NumLogits == 3

RECURSIVE Pow2(_)
Pow2(n) == IF n = 0 THEN 1 ELSE 2 * Pow2(n - 1)

\* self.model(**inputs).logits
logits(model, ticket_text) ==
    Dict(CATEGORIES,
         LAMBDA c : (model.weights + IndexOf(c) * (Len(ticket_text) + 1))
                        % NumLogits)

\* torch.nn.functional.softmax: exponentiate, divide by the sum
softmax(l) ==
    LET e == Dict(CATEGORIES, LAMBDA c : Pow2(l[c]))
        total == Total(e)
    IN  Dict(CATEGORIES, LAMBDA c : Frac(e[c], total))

\* lines 129-164, the body of the try block; inferenceOk = FALSE is any
\* exception raised by the tokenizer or the model
model_inference(self, ticket_text, inferenceOk) ==
    IF ~inferenceOk
    THEN Raise("inference error")
    ELSE Ok(Classification(softmax(logits(self.model, ticket_text)),
                           self.model_name))

\* the result of a method call: the value returned or the exception raised,
\* and the object as the call leaves it
Returns(self, v) == [raised |-> FALSE, value |-> v, self |-> self]

\* classify with a model that is not in eval mode: a forward pass leaves the
\* model in another state
classify_notEval(self, ticket_text, inferenceOk) ==
    IF self.use_mock \/ ~torch_available
    THEN Returns(self, _classify_mock(ticket_text))
    ELSE LET r == model_inference(self, ticket_text, inferenceOk)
             after == [self EXCEPT
                          !.model.weights = (self.model.weights + 1) % NumWeights]
         IN  IF r.raised
             THEN Returns(self, _classify_mock(ticket_text))
             ELSE Returns(after, r.value)

\* classify with an except branch that also sets self.use_mock = True
classify_stickyFallback(self, ticket_text, inferenceOk) ==
    IF self.use_mock \/ ~torch_available
    THEN Returns(self, _classify_mock(ticket_text))
    ELSE LET r == model_inference(self, ticket_text, inferenceOk)
         IN  IF r.raised
             THEN Returns([self EXCEPT !.use_mock = TRUE],
                          _classify_mock(ticket_text))
             ELSE Returns(self, r.value)

\* TicketClassifier.classify
classify(self, ticket_text, inferenceOk) ==
    IF self.use_mock \/ ~torch_available
    THEN Returns(self, _classify_mock(ticket_text))
    ELSE LET r == model_inference(self, ticket_text, inferenceOk)
         IN  IF r.raised
             THEN Returns(self, _classify_mock(ticket_text))
             ELSE Returns(self, r.value)

\* TicketClassifier.__init__ with _load_model; loadOk = FALSE is any
\* exception raised while the tokenizer or the model is loaded
TicketClassifier(loadOk, weights) ==
    IF torch_available
    THEN IF loadOk
         THEN [model_name |-> settings.MODEL_NAME, use_mock |-> FALSE,
               model |-> [weights |-> weights]]
         ELSE [model_name |-> settings.MODEL_NAME, use_mock |-> TRUE,
               model |-> Null]
    ELSE [model_name |-> "mock-classifier", use_mock |-> TRUE, model |-> Null]

\* get_classifier without the test of the global
get_classifier_fresh(instance, loadOk, weights) ==
    TicketClassifier(loadOk, weights)

get_classifier(instance, loadOk, weights) ==
    IF instance = Null THEN TicketClassifier(loadOk, weights) ELSE instance

-----------------------------------------------------------------------------
(* Settings (app/utils/config.py). *)

\* Settings.CATEGORY_ROUTING
CATEGORY_ROUTING ==
    [billing |-> [jira_priority |-> "High", slack_channel |-> "#billing"],
     technical |-> [jira_priority |-> "Medium", slack_channel |-> "#technical"],
     access |-> [jira_priority |-> "High", slack_channel |-> "#access"],
     general |-> [jira_priority |-> "Low", slack_channel |-> "#general"]]

\* the Settings object for one environment
Settings(jira_email, jira_api_token, slack_bot_token, slack_channel_id) ==
    [JIRA_URL |-> "https://your-domain.atlassian.net",
     JIRA_EMAIL |-> jira_email,
     JIRA_API_TOKEN |-> jira_api_token,
     JIRA_PROJECT_KEY |-> "SUP",
     SLACK_BOT_TOKEN |-> slack_bot_token,
     SLACK_CHANNEL_ID |-> slack_channel_id,
     GMAIL_REFRESH_TOKEN |-> None,
     WATSONX_API_KEY |-> None,
     WATSONX_URL |-> "https://us-south.ml.cloud.ibm.com",
     WATSONX_PROJECT_ID |-> None,
     WATSONX_MODEL_ID |-> "meta-llama/llama-3-8b-instruct",
     MODEL_NAME |-> "bert-base-uncased",
     CATEGORY_ROUTING |-> CATEGORY_ROUTING]

\* the singletons of the process
Singletons == {"classifier", "jira", "slack", "watsonx", "gmail"}

\* no service class has been instantiated
NoConstructions == [s \in Singletons |-> 0]

\* no environment variable set
DefaultSettings == Settings(None, None, None, "#support-tickets")

-----------------------------------------------------------------------------
(* More Python values. *)

\* truth value of an Optional[str]
Truthy(x) == x # None /\ x # ""

\* an f-string: the template and the values substituted into it
Format(fmt, args) == [fmt |-> fmt, args |-> args]

\* str.title() on the category names
title ==
    [billing |-> "Billing", technical |-> "Technical", access |-> "Access",
     general |-> "General", bug_report |-> "Bug_Report",
     feature_request |-> "Feature_Request"]

\* the result of a collaborator call: Returns, and the remote requests made
Called(self, v, remote) ==
    [raised |-> FALSE, value |-> v, self |-> self, remote |-> remote]

\* a method call that ends in an exception
Raised(self, error) ==
    [raised |-> TRUE, error |-> error, self |-> self, remote |-> <<>>]

-----------------------------------------------------------------------------
(* JiraService (app/services/jira_service.py). *)

\* bounds of random.randint in _create_mock_issue
MockKeyMin == 1000
MockKeyMax == 9999
MockIdMin == 10000
MockIdMax == 99999

\* JiraService.__init__ with the auth object built whatever is configured
JiraService_authAlways ==
    [url |-> settings.JIRA_URL,
     email |-> settings.JIRA_EMAIL,
     api_token |-> settings.JIRA_API_TOKEN,
     project_key |-> settings.JIRA_PROJECT_KEY,
     auth |-> [username |-> settings.JIRA_EMAIL,
               password |-> settings.JIRA_API_TOKEN]]

\* JiraService.__init__
JiraService ==
    [url |-> settings.JIRA_URL,
     email |-> settings.JIRA_EMAIL,
     api_token |-> settings.JIRA_API_TOKEN,
     project_key |-> settings.JIRA_PROJECT_KEY,
     auth |-> IF Truthy(settings.JIRA_EMAIL) /\ Truthy(settings.JIRA_API_TOKEN)
              THEN [username |-> settings.JIRA_EMAIL,
                    password |-> settings.JIRA_API_TOKEN]
              ELSE Null]

get_jira_service(instance) == IF instance = Null THEN JiraService ELSE instance

\* JiraService._create_mock_issue; draw holds the two random numbers
_create_mock_issue(self, summary, description, priority, draw) ==
    LET issue_key == Format("{}-{}", <<self.project_key, draw.key>>)
    IN  [success |-> TRUE,
         issue_key |-> issue_key,
         issue_id |-> Format("mock-{}", <<draw.id>>),
         url |-> Format("{}/browse/{}", <<self.url, issue_key>>),
         mock |-> TRUE]

\* create_issue without the try/except around the request
create_issue_noCatch(self, summary, description, issue_type, priority, labels, outcome, draw) ==
    IF self.auth = Null
    THEN Called(self, _create_mock_issue(self, summary, description, priority, draw), <<>>)
    ELSE LET payload ==
                 [project |-> self.project_key, summary |-> summary,
                  description |-> description, issuetype |-> issue_type,
                  priority |-> priority, labels |-> labels]
             post == <<[url |-> Format("{}/rest/api/3/issue", <<self.url>>),
                        json |-> payload, auth |-> self.auth]>>
             key == Format("{}-{}", <<self.project_key, draw.key>>)
         IN  CASE outcome = "created" ->
                    Called(self,
                           [success |-> TRUE,
                            issue_key |-> key,
                            issue_id |-> Format("{}", <<draw.id>>),
                            url |-> Format("{}/browse/{}", <<self.url, key>>)],
                           post)
               [] outcome = "rejected" ->
                    Called(self,
                           [success |-> FALSE,
                            error |-> "Failed to create Jira issue: {status_code} - {text}"],
                           post)
               [] outcome = "exception" ->
                    [raised |-> TRUE, error |-> "str(e)", self |-> self,
                     remote |-> post]

\* JiraService.create_issue.  outcome is what requests.post does: "created"
\* (status 201; draw holds the key and id assigned by the server, a key
\* always being present in a 201 answer), "rejected" (any other status) or
\* "exception" (requests.post or response.json() raises)
create_issue(self, summary, description, issue_type, priority, labels, outcome, draw) ==
    IF self.auth = Null
    THEN Called(self, _create_mock_issue(self, summary, description, priority, draw), <<>>)
    ELSE LET payload ==
                 [project |-> self.project_key, summary |-> summary,
                  description |-> description, issuetype |-> issue_type,
                  priority |-> priority, labels |-> labels]
             post == <<[url |-> Format("{}/rest/api/3/issue", <<self.url>>),
                        json |-> payload, auth |-> self.auth]>>
             key == Format("{}-{}", <<self.project_key, draw.key>>)
         IN  CASE outcome = "created" ->
                    Called(self,
                           [success |-> TRUE,
                            issue_key |-> key,
                            issue_id |-> Format("{}", <<draw.id>>),
                            url |-> Format("{}/browse/{}", <<self.url, key>>)],
                           post)
               [] outcome = "rejected" ->
                    Called(self,
                           [success |-> FALSE,
                            error |-> "Failed to create Jira issue: {status_code} - {text}"],
                           post)
               [] outcome = "exception" ->
                    Called(self, [success |-> FALSE, error |-> "str(e)"], post)

\* what requests.put does in update_issue: status 204, another status, or
\* an exception
UpdateOutcomes == {"updated", "rejected", "exception"}

\* JiraService.update_issue
update_issue(self, issue_key, summary, description, priority, outcome) ==
    IF self.auth = Null
    THEN Called(self, [success |-> TRUE, message |-> "Mock update successful"],
                <<>>)
    ELSE IF ~(Truthy(summary) \/ Truthy(description) \/ Truthy(priority))
    THEN Called(self, [success |-> FALSE, error |-> "No fields to update"], <<>>)
    ELSE LET put == <<[url |-> Format("{}/rest/api/3/issue/{}",
                                      <<self.url, issue_key>>),
                       json |-> [summary |-> summary,
                                 description |-> description,
                                 priority |-> priority],
                       auth |-> self.auth]>>
         IN  CASE outcome = "updated" ->
                    Called(self, [success |-> TRUE, issue_key |-> issue_key],
                           put)
               [] outcome = "rejected" ->
                    Called(self,
                           [success |-> FALSE,
                            error |-> "Failed to update Jira issue: {status_code} - {text}"],
                           put)
               [] outcome = "exception" ->
                    Called(self, [success |-> FALSE, error |-> "str(e)"], put)

-----------------------------------------------------------------------------
(* SlackService (app/services/slack_service.py). *)

\* SlackService.__init__
SlackService ==
    [bot_token |-> settings.SLACK_BOT_TOKEN,
     base_url |-> "https://slack.com/api",
     default_channel |-> settings.SLACK_CHANNEL_ID]

get_slack_service(instance) == IF instance = Null THEN SlackService ELSE instance

\* `a or b` on Optional[str]
OrElse(a, b) == IF Truthy(a) THEN a ELSE b

\* _send_mock_message without the mock mark
_send_mock_message_unmarked(self, text, channel) ==
    [success |-> TRUE,
     channel |-> OrElse(channel, self.default_channel),
     ts |-> "1234567890.123456",
     message |-> [text |-> text]]

\* SlackService._send_mock_message
_send_mock_message(self, text, channel) ==
    [success |-> TRUE,
     channel |-> OrElse(channel, self.default_channel),
     ts |-> "1234567890.123456",
     message |-> [text |-> text],
     mock |-> TRUE]

\* SlackService.send_message.  outcome is what chat.postMessage does: "ok"
\* (the answer has ok=true and names the channel posted to), "not_ok" (the
\* answer carries an error) or "exception" (requests.post or json() raises)
send_message(self, text, channel, blocks, outcome) ==
    IF ~Truthy(self.bot_token)
    THEN Called(self, _send_mock_message(self, text, channel), <<>>)
    ELSE LET payload == [channel |-> OrElse(channel, self.default_channel),
                         text |-> text, blocks |-> blocks]
             post == <<[url |-> Format("{}/chat.postMessage", <<self.base_url>>),
                        json |-> payload, token |-> self.bot_token]>>
         IN  CASE outcome = "ok" ->
                    Called(self,
                           [success |-> TRUE,
                            channel |-> payload.channel,
                            ts |-> "ts",
                            message |-> [text |-> text]],
                           post)
               [] outcome = "not_ok" ->
                    Called(self, [success |-> FALSE, error |-> "error"], post)
               [] outcome = "exception" ->
                    Called(self, [success |-> FALSE, error |-> "str(e)"], post)

\* dict.get(key, default) on a dict modelled as a record
DictGet(d, key, default) == IF key \in DOMAIN d THEN d[key] ELSE default

\* truth value of an Optional issue key
HasKey(jira_key) == jira_key # Null

\* target_channel without the look at CATEGORY_ROUTING
target_channel_noRouting(self, category, channel) ==
    OrElse(channel, self.default_channel)

\* the channel send_ticket_notification posts to (lines 114-116)
target_channel(self, category, channel) ==
    LET routing == DictGet(settings.CATEGORY_ROUTING, category, <<>>)
    IN  OrElse(channel,
               IF "slack_channel" \in DOMAIN routing
               THEN routing.slack_channel ELSE self.default_channel)

\* SlackService.send_ticket_notification
send_ticket_notification(self, ticket_id, category, summary, jira_key, channel, outcome) ==
    LET blocks ==
            <<[type |-> "header",
               text |-> Format("New {} Ticket", <<title[category]>>)],
              [type |-> "section",
               text |-> Format("*Ticket ID:*\n{} *Category:*\n{}",
                               <<ticket_id, category>>)],
              [type |-> "section",
               text |-> Format("*Summary:*\n{}", <<summary>>)]>>
            \o (IF HasKey(jira_key)
                THEN <<[type |-> "section",
                        text |-> Format("*Jira Issue:* <{}/browse/{}|{}>",
                                        <<settings.JIRA_URL, jira_key, jira_key>>)]>>
                ELSE <<>>)
        text == [fmt |-> "New {} ticket: {}",
                 category |-> category,
                 summary |-> summary,
                 jira |-> IF HasKey(jira_key) THEN jira_key ELSE Null]
    IN  send_message(self, text, target_channel(self, category, channel),
                     blocks, outcome)

-----------------------------------------------------------------------------
(* WatsonXService (app/services/watsonx_service.py).  The SDK is a library: *)
(* what its import, the construction of Model and Model.generate do is     *)
(* chosen by the environment.                                              *)

\* the canned texts of _generate_mock_response (lines 139, 141, 143)
MockReplyText == "Thank you for contacting us. We understand your concern and will look into this matter promptly. Our team will get back to you within 24 hours."
MockSummaryText == "Customer experiencing issue with service. Requires immediate attention from support team."
MockGenericText == "This is a mock response. Please configure watsonx.ai credentials for actual AI-generated responses."

\* the substrings _generate_mock_response looks for
kw_suggest == <<"s","u","g","g","e","s","t">>
kw_response == <<"r","e","s","p","o","n","s","e">>
kw_summar == <<"s","u","m","m","a","r">>

\* the category names as they are substituted into a prompt
CategoryChars ==
    [billing |-> <<"b","i","l","l","i","n","g">>,
     technical |-> <<"t","e","c","h","n","i","c","a","l">>,
     access |-> <<"a","c","c","e","s","s">>,
     general |-> <<"g","e","n","e","r","a","l">>,
     bug_report |-> <<"b","u","g","_","r","e","p","o","r","t">>,
     feature_request |-> <<"f","e","a","t","u","r","e","_","r","e","q","u","e",
                           "s","t">>]

\* the fixed parts of the prompt of suggest_reply (lines 107-112)
SuggestHead ==
    <<"Y","o","u"," ","a","r","e"," ","a"," ","h","e","l","p","f","u","l",
      " ","s","u","p","p","o","r","t"," ","a","g","e","n","t","."," ","G",
      "e","n","e","r","a","t","e"," ","a"," ","p","r","o","f","e","s","s",
      "i","o","n","a","l"," ","a","n","d"," ","e","m","p","a","t","h","e",
      "t","i","c"," ","r","e","s","p","o","n","s","e"," ","t","o"," ","t",
      "h","i","s"," ">>
SuggestMid ==
    <<" ","s","u","p","p","o","r","t"," ","t","i","c","k","e","t",".","\n",
      "\n","T","i","c","k","e","t",":","\n">>
SuggestTail ==
    <<"\n","\n","R","e","s","p","o","n","s","e",":">>

\* the fixed parts of the prompt of summarize_ticket (lines 126-131)
SummarizeHead ==
    <<"S","u","m","m","a","r","i","z","e"," ","t","h","i","s"," ","s","u",
      "p","p","o","r","t"," ","t","i","c","k","e","t"," ","i","n"," ","2",
      "-","3"," ","s","e","n","t","e","n","c","e","s",","," ","h","i","g",
      "h","l","i","g","h","t","i","n","g"," ","t","h","e"," ","k","e","y",
      " ","i","s","s","u","e"," ","a","n","d"," ","u","r","g","e","n","c",
      "y",".","\n","\n","T","i","c","k","e","t",":","\n">>
SummarizeTail ==
    <<"\n","\n","S","u","m","m","a","r","y",":">>

\* what importing the SDK and constructing Model do in WatsonXService()
SdkOutcomes == {"ok", "import_error", "init_error"}

\* WatsonXService.__init__
WatsonXService(sdk) ==
    [api_key |-> settings.WATSONX_API_KEY,
     url |-> settings.WATSONX_URL,
     project_id |-> settings.WATSONX_PROJECT_ID,
     model_id |-> settings.WATSONX_MODEL_ID,
     available |-> /\ Truthy(settings.WATSONX_API_KEY)
                   /\ Truthy(settings.WATSONX_PROJECT_ID)
                   /\ sdk = "ok"]

get_watsonx_service(instance, sdk) ==
    IF instance = Null THEN WatsonXService(sdk) ELSE instance

\* _generate_mock_response with the test for "summar" made first
_generate_mock_response_summaryFirst(prompt) ==
    LET p == lower(prompt)
    IN  [success |-> TRUE,
         text |-> IF In(kw_summar, p) THEN MockSummaryText
                  ELSE IF In(kw_suggest, p) \/ In(kw_response, p)
                       THEN MockReplyText
                       ELSE MockGenericText,
         model |-> "mock",
         mock |-> TRUE]

\* WatsonXService._generate_mock_response
_generate_mock_response(prompt) ==
    LET p == lower(prompt)
    IN  [success |-> TRUE,
         text |-> IF In(kw_suggest, p) \/ In(kw_response, p) THEN MockReplyText
                  ELSE IF In(kw_summar, p) THEN MockSummaryText
                       ELSE MockGenericText,
         model |-> "mock",
         mock |-> TRUE]

\* what self.model.generate does: it answers with a generated text, with a
\* result that has no generated_text, with an empty list of results (the
\* [0] of line 80 then raises IndexError), or it raises
GenerateOutcomes == {"generated", "no_text", "no_results", "exception"}

\* the text a watsonx answer carries
GeneratedText == "generated_text"

\* generate_response that calls the backend whether or not it is available
generate_response_alwaysCall(self, prompt, max_tokens, outcome) ==
    CASE outcome = "generated" ->
            Called(self, [success |-> TRUE, text |-> GeneratedText,
                          model |-> self.model_id],
                   <<[call |-> "generate", prompt |-> prompt,
                      max_new_tokens |-> max_tokens]>>)
      [] outcome = "no_text" ->
            Called(self, [success |-> TRUE, text |-> "",
                          model |-> self.model_id],
                   <<[call |-> "generate", prompt |-> prompt,
                      max_new_tokens |-> max_tokens]>>)
      [] outcome \in {"no_results", "exception"} ->
            Called(self,
                   [success |-> FALSE, error |-> "str(e)",
                    text |-> _generate_mock_response(prompt).text],
                   <<[call |-> "generate", prompt |-> prompt,
                      max_new_tokens |-> max_tokens]>>)

\* generate_response with an except branch that gives up the backend
generate_response_giveUp(self, prompt, max_tokens, outcome) ==
    IF ~self.available
    THEN Called(self, _generate_mock_response(prompt), <<>>)
    ELSE CASE outcome = "generated" ->
                Called(self, [success |-> TRUE, text |-> GeneratedText,
                              model |-> self.model_id],
                       <<[call |-> "generate", prompt |-> prompt,
                          max_new_tokens |-> max_tokens]>>)
           [] outcome = "no_text" ->
                Called(self, [success |-> TRUE, text |-> "",
                              model |-> self.model_id],
                       <<[call |-> "generate", prompt |-> prompt,
                          max_new_tokens |-> max_tokens]>>)
           [] outcome \in {"no_results", "exception"} ->
                Called([self EXCEPT !.available = FALSE],
                       [success |-> FALSE, error |-> "str(e)"],
                       <<[call |-> "generate", prompt |-> prompt,
                          max_new_tokens |-> max_tokens]>>)

\* WatsonXService.generate_response
generate_response(self, prompt, max_tokens, outcome) ==
    IF ~self.available
    THEN Called(self, _generate_mock_response(prompt), <<>>)
    ELSE CASE outcome = "generated" ->
                Called(self, [success |-> TRUE, text |-> GeneratedText,
                              model |-> self.model_id],
                       <<[call |-> "generate", prompt |-> prompt,
                          max_new_tokens |-> max_tokens]>>)
           [] outcome = "no_text" ->
                Called(self, [success |-> TRUE, text |-> "",
                              model |-> self.model_id],
                       <<[call |-> "generate", prompt |-> prompt,
                          max_new_tokens |-> max_tokens]>>)
           [] outcome \in {"no_results", "exception"} ->
                Called(self,
                       [success |-> FALSE, error |-> "str(e)",
                        text |-> _generate_mock_response(prompt).text],
                       <<[call |-> "generate", prompt |-> prompt,
                          max_new_tokens |-> max_tokens]>>)

\* the prompt of suggest_reply
suggest_prompt(ticket_text, category) ==
    SuggestHead \o CategoryChars[category] \o SuggestMid \o ticket_text
        \o SuggestTail

\* WatsonXService.suggest_reply
suggest_reply(self, ticket_text, category, outcome) ==
    generate_response(self, suggest_prompt(ticket_text, category), 300, outcome)

\* the prompt of summarize_ticket ending like the one of suggest_reply
summarize_prompt_responseTail(ticket_text) ==
    SummarizeHead \o ticket_text \o SuggestTail

\* the prompt of summarize_ticket
summarize_prompt(ticket_text) == SummarizeHead \o ticket_text \o SummarizeTail

\* WatsonXService.summarize_ticket
summarize_ticket(self, ticket_text, outcome) ==
    generate_response(self, summarize_prompt(ticket_text), 150, outcome)

-----------------------------------------------------------------------------
(* GmailService (app/services/gmail_service.py).  The Google client is a   *)
(* library: what the token refresh, the construction of the client, the    *)
(* listing and the retrieval of a message do is chosen by the environment. *)

\* what _authenticate meets: the refresh and build succeed, creds.refresh
\* raises, or build raises
AuthOutcomes == {"ok", "refresh_error", "build_error"}

\* GmailService.__init__ with _authenticate
GmailService(auth) ==
    [credentials |-> IF Truthy(settings.GMAIL_REFRESH_TOKEN)
                        /\ auth \in {"ok", "build_error"}
                     THEN [refresh_token |-> settings.GMAIL_REFRESH_TOKEN]
                     ELSE Null,
     service |-> IF Truthy(settings.GMAIL_REFRESH_TOKEN) /\ auth = "ok"
                 THEN [api |-> "gmail", version |-> "v1"]
                 ELSE Null]

get_gmail_service(instance, auth) ==
    IF instance = Null THEN GmailService(auth) ELSE instance

\* GmailService._get_mock_tickets; now is datetime.now().isoformat()
_get_mock_tickets(self, now) ==
    <<[id |-> "mock-1",
       subject |-> "Billing Issue - Payment Failed",
       from |-> "customer@example.com",
       date |-> now,
       body |-> "I tried to make a payment but it failed. My card was charged but the service shows as unpaid.",
       text |-> "Billing Issue - Payment Failed\n\nI tried to make a payment but it failed. My card was charged but the service shows as unpaid.",
       source |-> "mock"],
      [id |-> "mock-2",
       subject |-> "Cannot Access Dashboard",
       from |-> "user@example.com",
       date |-> now,
       body |-> "I cannot log into my account. I keep getting an authentication error.",
       text |-> "Cannot Access Dashboard\n\nI cannot log into my account. I keep getting an authentication error.",
       source |-> "mock"],
      [id |-> "mock-3",
       subject |-> "API Integration Help",
       from |-> "developer@example.com",
       date |-> now,
       body |-> "I need help integrating your API into my application. The documentation is unclear about authentication.",
       text |-> "API Integration Help\n\nI need help integrating your API into my application. The documentation is unclear about authentication.",
       source |-> "mock"]>>

\* what the retrieval of a listed message gives: a full message, a message
\* without a Subject header, or an exception (the get fails, the payload is
\* not as expected)
ParseOutcomes == {"full", "no_subject", "error"}

\* the ticket made of a message
ParsedTicket(message_id, subject) ==
    [id |-> message_id,
     subject |-> subject,
     from |-> "sender@example.com",
     date |-> "Mon, 1 Jan 2024 00:00:00 +0000",
     body |-> "body",
     text |-> Format("{}\n\n{}", <<subject, "body">>),
     source |-> "gmail"]

\* _parse_message without its try/except
_parse_message_noCatch(self, message_id, parse) ==
    CASE parse = "full" ->
            Called(self, ParsedTicket(message_id, "Payment failed"),
                   <<[call |-> "get", id |-> message_id]>>)
      [] parse = "no_subject" ->
            Called(self, ParsedTicket(message_id, "No Subject"),
                   <<[call |-> "get", id |-> message_id]>>)
      [] parse = "error" -> Raised(self, "str(e)")

\* GmailService._parse_message
_parse_message(self, message_id, parse) ==
    CASE parse = "full" ->
            Called(self, ParsedTicket(message_id, "Payment failed"),
                   <<[call |-> "get", id |-> message_id]>>)
      [] parse = "no_subject" ->
            Called(self, ParsedTicket(message_id, "No Subject"),
                   <<[call |-> "get", id |-> message_id]>>)
      [] parse = "error" ->
            Called(self, Null, <<[call |-> "get", id |-> message_id]>>)

\* the loop of fetch_tickets (lines 75-78) over the entries of the listing
\* not yet visited; an entry without 'id' makes msg['id'] raise
RECURSIVE parse_messages(_, _, _)
parse_messages(self, messages, tickets) ==
    IF messages = <<>> THEN Returns(self, tickets)
    ELSE IF ~Head(messages).has_id THEN Raised(self, "KeyError: 'id'")
    ELSE CHOOSE out \in
            {IF r.raised THEN r
             ELSE parse_messages(self, Tail(messages),
                                 IF r.value # Null
                                 THEN Append(tickets, r.value) ELSE tickets) :
             r \in {_parse_message(self, Head(messages).id,
                                   Head(messages).parse)}} : TRUE

\* what messages().list().execute() does: it answers, or raises HttpError
\* or another exception
ListOutcomes == {"listed", "http_error", "exception"}

\* GmailService.fetch_tickets; listing is what the list call does and, if
\* it answers, the entries of its 'messages' (none if the key is absent)
fetch_tickets(self, query, max_results, listing, now) ==
    IF self.service = Null
    THEN Called(self, _get_mock_tickets(self, now), <<>>)
    ELSE LET list == <<[call |-> "list", q |-> query,
                        maxResults |-> max_results]>>
         IN  IF listing.outcome # "listed"
             THEN Called(self, _get_mock_tickets(self, now), list)
             ELSE CHOOSE out \in
                     {IF r.raised
                      THEN Called(self, _get_mock_tickets(self, now), list)
                      ELSE Called(self, r.value, list) :
                      r \in {parse_messages(self, listing.messages, <<>>)}} :
                     TRUE

-----------------------------------------------------------------------------
(* The request handlers (app/routes/route.py, app/routes/classify.py).  g   *)
(* holds the global service instances; a handler returns them as it leaves *)
(* them, the HTTP status with the body or the error detail, and the        *)
(* collaborator calls it made, in order.  env.unexpected names the call of *)
(* the handler, if any, in which an exception arises that the callee does  *)
(* not handle itself (a MemoryError, a library defect).                    *)

HTTP200(g, body, trace) ==
    [g |-> g, status |-> 200, body |-> body, trace |-> trace]

\* raise HTTPException(status_code=500, detail=...)
HTTP500(g, detail, trace) ==
    [g |-> g, status |-> 500, detail |-> detail, trace |-> trace]

\* the exception of env.unexpected arises in the call `point`
Unexpected(env, point) == env.unexpected = point

\* the default with the channel name written out
default_routing_hardcoded ==
    [jira_priority |-> "Medium", slack_channel |-> "#support-tickets"]

\* the default of lines 64-67
default_routing ==
    [jira_priority |-> "Medium", slack_channel |-> settings.SLACK_CHANNEL_ID]

\* line 80: the summary of the issue
jira_summary(req, category) ==
    IF Truthy(req.subject)
    THEN Format("{}", <<req.subject>>)
    ELSE Format("{} Ticket: {}", <<title[category], req.ticket_id>>)

\* lines 81-83: the description of the issue
jira_description(req) ==
    IF Truthy(req.from_email)
    THEN Format("Ticket ID: {}\n\n{}\n\nFrom: {}",
                <<req.ticket_id, req.text, req.from_email>>)
    ELSE Format("Ticket ID: {}\n\n{}", <<req.ticket_id, req.text>>)

\* lines 85-92: jira_issue is what create_issue returned (r), the call is
\* recorded with its arguments
jira_called(g, req, summary, description, priority, labels, r) ==
    [g |-> [g EXCEPT !.jira = r.self],
     raised |-> r.raised,
     error |-> IF r.raised THEN r.error ELSE None,
     jira_issue |-> IF r.raised THEN Null ELSE r.value,
     trace |-> <<[call |-> "create_issue",
                  ticket_id |-> req.ticket_id,
                  summary |-> summary,
                  description |-> description,
                  issue_type |-> "Task",
                  priority |-> priority,
                  labels |-> labels,
                  raised |-> r.raised,
                  result |-> IF r.raised THEN Null ELSE r.value,
                  remote |-> IF r.raised THEN <<>> ELSE r.remote]>>]

\* lines 79-92: the call of create_issue
call_create_issue(g, req, summary, description, priority, labels, env) ==
    IF Unexpected(env, "get_jira_service")
    THEN [g |-> g, raised |-> TRUE, error |-> "get_jira_service",
          jira_issue |-> Null, trace |-> <<>>]
    ELSE jira_called(g, req, summary, description, priority, labels,
                     IF Unexpected(env, "create_issue")
                     THEN Raised(get_jira_service(g.jira), "create_issue")
                     ELSE create_issue(get_jira_service(g.jira), summary,
                                       description, "Task", priority, labels,
                                       env.jira, env.issue))

\* lines 76-92 without the test of request.create_jira
create_jira_step_always(g, req, category, routing_config, env) ==
    call_create_issue(g, req, jira_summary(req, category), jira_description(req),
                      DictGet(routing_config, "jira_priority", "Medium"),
                      <<category, "ai-triaged">>, env)

\* the Jira step with the default priority instead of the one looked up
create_jira_step_defaultPriority(g, req, category, routing_config, env) ==
    IF ~req.create_jira
    THEN [g |-> g, raised |-> FALSE, error |-> None, jira_issue |-> Null,
          trace |-> <<>>]
    ELSE call_create_issue(g, req, jira_summary(req, category),
                           jira_description(req), "Medium",
                           <<category, "ai-triaged">>, env)

\* lines 76-92 of route_ticket
create_jira_step(g, req, category, routing_config, env) ==
    IF ~req.create_jira
    THEN [g |-> g, raised |-> FALSE, error |-> None, jira_issue |-> Null,
          trace |-> <<>>]
    ELSE call_create_issue(g, req, jira_summary(req, category),
                           jira_description(req),
                           DictGet(routing_config, "jira_priority", "Medium"),
                           <<category, "ai-triaged">>, env)

\* line 99 reading the key under the name the Jira answer uses
jira_key_of_wrongField(jira_issue) ==
    IF jira_issue # Null /\ DictGet(jira_issue, "success", FALSE)
    THEN DictGet(jira_issue, "key", Null)
    ELSE Null

\* line 99
jira_key_of(jira_issue) ==
    IF jira_issue # Null /\ DictGet(jira_issue, "success", FALSE)
    THEN DictGet(jira_issue, "issue_key", Null)
    ELSE Null

\* line 98: the summary of the notification
slack_summary(req) ==
    IF Truthy(req.subject)
    THEN Format("{}", <<req.subject>>)
    ELSE Format("Ticket {}", <<req.ticket_id>>)

\* lines 101-107: slack_message is what send_ticket_notification returned
\* (r), the call is recorded with its arguments
slack_called(g, req, category, summary, jira_key, r) ==
    [g |-> [g EXCEPT !.slack = r.self],
     raised |-> r.raised,
     error |-> IF r.raised THEN r.error ELSE None,
     slack_message |-> IF r.raised THEN Null ELSE r.value,
     trace |-> <<[call |-> "send_ticket_notification",
                  ticket_id |-> req.ticket_id,
                  category |-> category,
                  summary |-> summary,
                  jira_key |-> jira_key,
                  raised |-> r.raised,
                  result |-> IF r.raised THEN Null ELSE r.value,
                  remote |-> IF r.raised THEN <<>> ELSE r.remote]>>]

\* lines 96-107: the call of send_ticket_notification
call_send_ticket_notification(g, req, category, summary, jira_key, env) ==
    IF Unexpected(env, "get_slack_service")
    THEN [g |-> g, raised |-> TRUE, error |-> "get_slack_service",
          slack_message |-> Null, trace |-> <<>>]
    ELSE slack_called(g, req, category, summary, jira_key,
                      IF Unexpected(env, "send_ticket_notification")
                      THEN Raised(get_slack_service(g.slack),
                                  "send_ticket_notification")
                      ELSE send_ticket_notification(
                               get_slack_service(g.slack), req.ticket_id,
                               category, summary, jira_key, None, env.slack))

\* lines 94-107 of route_ticket
send_slack_step(g, req, category, jira_issue, env) ==
    IF ~req.send_slack
    THEN [g |-> g, raised |-> FALSE, error |-> None, slack_message |-> Null,
          trace |-> <<>>]
    ELSE call_send_ticket_notification(g, req, category, slack_summary(req),
                                       jira_key_of(jira_issue), env)

\* route_ticket with the notifier called before the issue tracker
route_response_notifyFirst(req, env, c, routing_config, t1, j, m) ==
    IF m.raised
    THEN HTTP500(m.g, Format("Routing error: {}", <<m.error>>),
                 t1 \o m.trace \o j.trace)
    ELSE IF Unexpected(env, "response")
    THEN HTTP500(m.g, Format("Routing error: {}", <<"response">>),
                 t1 \o m.trace \o j.trace)
    ELSE HTTP200(m.g,
                 [ticket_id |-> req.ticket_id,
                  category |-> c.value.category,
                  confidence |-> c.value.confidence,
                  jira_issue |-> j.jira_issue,
                  slack_message |-> m.slack_message,
                  routing_config |-> routing_config],
                 t1 \o m.trace \o j.trace)

\* lines 109-114: the response, given the classification c, the routing
\* entry, and what the Jira step (j) and the Slack step (m) left
route_response(req, env, c, routing_config, t1, j, m) ==
    IF m.raised
    THEN HTTP500(m.g, Format("Routing error: {}", <<m.error>>),
                 t1 \o j.trace \o m.trace)
    ELSE IF Unexpected(env, "response")
    THEN HTTP500(m.g, Format("Routing error: {}", <<"response">>),
                 t1 \o j.trace \o m.trace)
    ELSE HTTP200(m.g,
                 [ticket_id |-> req.ticket_id,
                  category |-> c.value.category,
                  confidence |-> c.value.confidence,
                  jira_issue |-> j.jira_issue,
                  slack_message |-> m.slack_message,
                  routing_config |-> routing_config],
                 t1 \o j.trace \o m.trace)

\* route_ticket going on without the issue if the Jira step raises
route_notified_partial(req, env, c, routing_config, t1, j) ==
    route_response(req, env, c, routing_config, t1, j,
                   send_slack_step(j.g, req, c.value.category, j.jira_issue,
                                   env))

\* lines 94-114, after the Jira step j
route_notified(req, env, c, routing_config, t1, j) ==
    IF j.raised
    THEN HTTP500(j.g, Format("Routing error: {}", <<j.error>>),
                 t1 \o j.trace)
    ELSE route_response(req, env, c, routing_config, t1, j,
                        send_slack_step(j.g, req, c.value.category,
                                        j.jira_issue, env))

\* lines 76-114, after the lookup of the routing entry
route_tracked(g1, req, env, c, routing_config, t1) ==
    route_notified(req, env, c, routing_config, t1,
                   create_jira_step(g1, req, c.value.category, routing_config,
                                    env))

\* lines 63-114, after the classification c
route_classified(g, req, env, c) ==
    LET g1 == [g EXCEPT !.classifier = c.self]
        t1 == <<[call |-> "classify", ticket_id |-> req.ticket_id,
                 text |-> req.text, raised |-> c.raised,
                 result |-> IF c.raised THEN Null ELSE c.value]>>
    IN  IF c.raised
        THEN HTTP500(g1, Format("Routing error: {}", <<c.error>>), t1)
        ELSE route_tracked(g1, req, env, c,
                           DictGet(settings.CATEGORY_ROUTING, c.value.category,
                                   default_routing),
                           t1)

\* route_ticket: load is what the libraries do if the classifier is
\* constructed by this request, env what they do during the calls
route_ticket(g, req, load, env) ==
    IF Unexpected(env, "get_classifier")
    THEN HTTP500(g, Format("Routing error: {}", <<"get_classifier">>), <<>>)
    ELSE route_classified(
             g, req, env,
             IF Unexpected(env, "classify")
             THEN Raised(get_classifier(g.classifier, load.loadOk, load.weights),
                         "classify")
             ELSE classify(get_classifier(g.classifier, load.loadOk,
                                          load.weights),
                           req.text, env.inferenceOk))

\* the loop with results.insert(0, ...) in place of results.append(...)
RECURSIVE batch_loop_prepend(_, _, _, _, _, _)
batch_loop_prepend(g, tickets, load, envs, results, trace) ==
    IF tickets = <<>>
    THEN HTTP200(g, [processed |-> Len(results), results |-> results], trace)
    ELSE CHOOSE out \in
            {IF r.status # 200
             THEN HTTP500(r.g, Format("Batch routing error: {}", <<r.detail>>),
                          trace \o r.trace)
             ELSE batch_loop_prepend(r.g, Tail(tickets), load, Tail(envs),
                                     <<r.body>> \o results, trace \o r.trace) :
              r \in {route_ticket(g, Head(tickets), load, Head(envs))}} : TRUE

\* the loop with every ticket classified before the collaborators of the
\* tickets before it are called
RECURSIVE batch_loop_classifyFirst(_, _, _, _, _, _)
batch_loop_classifyFirst(g, tickets, load, envs, results, trace) ==
    IF tickets = <<>>
    THEN HTTP200(g, [processed |-> Len(results), results |-> results], trace)
    ELSE CHOOSE out \in
            {IF r.status # 200
             THEN HTTP500(r.g, Format("Batch routing error: {}", <<r.detail>>),
                          SubSeq(r.trace, 1, 1) \o trace \o Tail(r.trace))
             ELSE batch_loop_classifyFirst(
                      r.g, Tail(tickets), load, Tail(envs),
                      Append(results, r.body),
                      SubSeq(r.trace, 1, 1) \o trace \o Tail(r.trace)) :
              r \in {route_ticket(g, Head(tickets), load, Head(envs))}} : TRUE

\* the loop going on to the next ticket when route_ticket raises
RECURSIVE batch_loop_skipFailed(_, _, _, _, _, _)
batch_loop_skipFailed(g, tickets, load, envs, results, trace) ==
    IF tickets = <<>>
    THEN HTTP200(g, [processed |-> Len(results), results |-> results], trace)
    ELSE CHOOSE out \in
            {batch_loop_skipFailed(
                 r.g, Tail(tickets), load, Tail(envs),
                 IF r.status # 200 THEN results ELSE Append(results, r.body),
                 trace \o r.trace) :
              r \in {route_ticket(g, Head(tickets), load, Head(envs))}} : TRUE

\* the loop of route_tickets_batch over the tickets not yet processed; r is
\* what route_ticket gives for the first of them
RECURSIVE batch_loop(_, _, _, _, _, _)
batch_loop(g, tickets, load, envs, results, trace) ==
    IF tickets = <<>>
    THEN HTTP200(g, [processed |-> Len(results), results |-> results], trace)
    ELSE CHOOSE out \in
            {IF r.status # 200
             THEN HTTP500(r.g, Format("Batch routing error: {}", <<r.detail>>),
                          trace \o r.trace)
             ELSE batch_loop(r.g, Tail(tickets), load, Tail(envs),
                             Append(results, r.body), trace \o r.trace) :
              r \in {route_ticket(g, Head(tickets), load, Head(envs))}} : TRUE

route_tickets_batch(g, tickets, load, envs) ==
    batch_loop(g, tickets, load, envs, <<>>, <<>>)

\* a step that takes the text of a result only if the result is a success
watsonx_called_onlyOnSuccess(g, call, r) ==
    [g |-> [g EXCEPT !.watsonx = r.self],
     raised |-> r.raised,
     error |-> IF r.raised THEN r.error ELSE None,
     text |-> IF r.raised \/ ~DictGet(r.value, "success", FALSE) THEN None
              ELSE DictGet(r.value, "text", ""),
     trace |-> <<[call EXCEPT !.raised = r.raised,
                              !.result = IF r.raised THEN Null ELSE r.value,
                              !.remote = IF r.raised THEN <<>> ELSE r.remote]>>]

\* a step of classify_ticket that calls the watsonx adapter: what it
\* leaves, the text taken from the result with .get("text", ""), the call
watsonx_called(g, call, r) ==
    [g |-> [g EXCEPT !.watsonx = r.self],
     raised |-> r.raised,
     error |-> IF r.raised THEN r.error ELSE None,
     text |-> IF r.raised THEN None ELSE DictGet(r.value, "text", ""),
     trace |-> <<[call EXCEPT !.raised = r.raised,
                              !.result = IF r.raised THEN Null ELSE r.value,
                              !.remote = IF r.raised THEN <<>> ELSE r.remote]>>]

\* a step that does nothing
skipped(g) ==
    [g |-> g, raised |-> FALSE, error |-> None, text |-> None, trace |-> <<>>]

\* lines 60-65 of classify_ticket
suggestion_step(g, req, category, env) ==
    IF ~req.include_suggestion
    THEN skipped(g)
    ELSE watsonx_called(g,
                        [call |-> "suggest_reply", ticket_text |-> req.text,
                         category |-> category, raised |-> FALSE,
                         result |-> Null, remote |-> <<>>],
                        IF Unexpected(env, "suggest_reply")
                        THEN Raised(g.watsonx, "suggest_reply")
                        ELSE suggest_reply(g.watsonx, req.text, category,
                                           env.suggest))

\* lines 67-69 of classify_ticket
summary_step(g, req, env) ==
    IF ~req.include_summary
    THEN skipped(g)
    ELSE watsonx_called(g,
                        [call |-> "summarize_ticket", ticket_text |-> req.text,
                         raised |-> FALSE, result |-> Null, remote |-> <<>>],
                        IF Unexpected(env, "summarize_ticket")
                        THEN Raised(g.watsonx, "summarize_ticket")
                        ELSE summarize_ticket(g.watsonx, req.text, env.summary))

\* lines 71-76: the response, given the classification c and what the
\* suggestion step (s) and the summary step (z) left
classify_response(env, c, t1, s, z) ==
    IF z.raised
    THEN HTTP500(z.g, Format("Classification error: {}", <<z.error>>),
                 t1 \o s.trace \o z.trace)
    ELSE IF Unexpected(env, "response")
    THEN HTTP500(z.g, Format("Classification error: {}", <<"response">>),
                 t1 \o s.trace \o z.trace)
    ELSE HTTP200(z.g,
                 [category |-> c.value.category,
                  confidence |-> c.value.confidence,
                  scores |-> c.value.scores,
                  model |-> c.value.model,
                  suggestion |-> s.text,
                  summary |-> z.text],
                 t1 \o s.trace \o z.trace)

\* lines 67-76, after the suggestion step s
classify_suggested(req, env, c, t1, s) ==
    IF s.raised
    THEN HTTP500(s.g, Format("Classification error: {}", <<s.error>>),
                 t1 \o s.trace)
    ELSE classify_response(env, c, t1, s, summary_step(s.g, req, env))

\* lines 57-58: the adapter is fetched if a suggestion or a summary is
\* asked for
watsonx_fetched(g, req, env) ==
    IF ~(req.include_suggestion \/ req.include_summary)
    THEN [g |-> g, raised |-> FALSE]
    ELSE IF Unexpected(env, "get_watsonx_service")
    THEN [g |-> g, raised |-> TRUE]
    ELSE [g |-> [g EXCEPT !.watsonx = get_watsonx_service(g.watsonx, env.sdk)],
          raised |-> FALSE]

\* lines 60-76, after the adapter has been fetched (w)
classify_fetched(req, env, c, t1, w) ==
    IF w.raised
    THEN HTTP500(w.g, Format("Classification error: {}",
                             <<"get_watsonx_service">>), t1)
    ELSE classify_suggested(req, env, c, t1,
                            suggestion_step(w.g, req, c.value.category, env))

\* lines 49-76, after the classification c
classify_classified(g, req, env, c) ==
    LET g1 == [g EXCEPT !.classifier = c.self]
        t1 == <<[call |-> "classify", text |-> req.text, raised |-> c.raised,
                 result |-> IF c.raised THEN Null ELSE c.value]>>
    IN  IF c.raised
        THEN HTTP500(g1, Format("Classification error: {}", <<c.error>>), t1)
        ELSE classify_fetched(req, env, c, t1, watsonx_fetched(g1, req, env))

\* classify_ticket (app/routes/classify.py): load is what the libraries do
\* if the classifier is constructed by this request, env what they do
\* during the calls
classify_ticket(g, req, load, env) ==
    IF Unexpected(env, "get_classifier")
    THEN HTTP500(g, Format("Classification error: {}", <<"get_classifier">>),
                 <<>>)
    ELSE classify_classified(
             g, req, env,
             IF Unexpected(env, "classify")
             THEN Raised(get_classifier(g.classifier, load.loadOk, load.weights),
                         "classify")
             ELSE classify(get_classifier(g.classifier, load.loadOk,
                                          load.weights),
                           req.text, env.inferenceOk))

-----------------------------------------------------------------------------
(* Inputs. *)

Vocabulary ==
    {<<"P","a","y","m","e","n","t">>,
     <<"r","e","f","u","n","d"," ","i","n","v","o","i","c","e"," ",
       "c","h","a","r","g","e"," ","c","o","s","t">>,
     <<"b","u","g"," ","e","r","r","o","r"," ","c","r","a","s","h"," ",
       "b","r","o","k","e","n">>,
     <<"d","e","f","e","c","t">>,
     <<"l","o","g","i","n">>,
     <<"h","e","l","l","o">>,
     <<"A","d","d","r","e","s","s">>}

\* " ".join(words)
RECURSIVE Join(_)
Join(words) ==
    IF words = <<>> THEN <<>>
    ELSE IF Len(words) = 1 THEN words[1]
    ELSE words[1] \o <<" ">> \o Join(Tail(words))

\* the texts given to the classifier; the empty string is one of them
Texts == {Join(ws) : ws \in UNION {[1..n -> Vocabulary] : n \in 0..MaxWords}}

Weights == 0..(NumWeights - 1)

\* what the libraries do during one classify call: whether the model loads
\* (if it is loaded in this call), which head it gets, whether inference works
ClassifierEnvs(instance) ==
    {e \in [loadOk : BOOLEAN, weights : Weights, inferenceOk : BOOLEAN] :
        /\ (instance # Null \/ ~torch_available) => (e.loadOk /\ e.weights = 0)
        /\ (instance # Null /\ instance.use_mock) => e.inferenceOk
        /\ ~torch_available => e.inferenceOk
        /\ ~e.loadOk => (e.weights = 0 /\ e.inferenceOk)}

-----------------------------------------------------------------------------
(* The classifier on its own: calls of get_classifier().classify(text). *)

InitClassifier ==
    /\ torch_available \in BOOLEAN
    /\ settings = DefaultSettings
    /\ _classifier_instance = Null
    /\ _jira_service_instance = Null
    /\ _slack_service_instance = Null
    /\ _watsonx_service_instance = Null
    /\ _gmail_service_instance = Null
    /\ pending = EmptyBag
    /\ constructions = NoConstructions
    /\ request = Null
    /\ response = Null
    /\ previous = Null

\* a caller is about to classify `text`
CallClassify(text) ==
    /\ request = Null
    /\ request' = [op |-> "classify", text |-> text]
    /\ previous' = IF response # Null /\ response.op = "classify"
                      /\ response.text = text
                   THEN response ELSE Null
    /\ response' = Null
    /\ UNCHANGED <<torch_available, settings, _classifier_instance,
                   _jira_service_instance, _slack_service_instance,
                   _watsonx_service_instance, _gmail_service_instance,
                   pending, constructions>>

\* how a classify call went: "keyword" (mock mode), "model" or "fallback"
PathOf(self, env) ==
    IF self.use_mock \/ ~torch_available THEN "keyword"
    ELSE IF env.inferenceOk THEN "model" ELSE "fallback"

\* get_classifier() followed by classifier.classify(text)
Classify(env) ==
    /\ request # Null /\ request.op = "classify"
    /\ \E classifier \in {get_classifier(_classifier_instance, env.loadOk,
                                          env.weights)} :
       \E r \in {classify(classifier, request.text, env.inferenceOk)} :
           /\ _classifier_instance' = r.self
           /\ response' = [op |-> "classify", text |-> request.text,
                           use_mock |-> classifier.use_mock,
                           path |-> PathOf(classifier, env),
                           raised |-> r.raised,
                           result |-> IF r.raised THEN Null ELSE r.value]
    /\ request' = Null
    /\ UNCHANGED <<torch_available, settings, _jira_service_instance,
                   _slack_service_instance, _watsonx_service_instance,
                   _gmail_service_instance, pending, constructions, previous>>

NextClassifier ==
    \/ \E text \in Texts : CallClassify(text)
    \/ \E env \in ClassifierEnvs(_classifier_instance) : Classify(env)

SpecClassifier == InitClassifier /\ [][NextClassifier]_vars

-----------------------------------------------------------------------------
(* The routing endpoints: POST /route and POST /route/batch. *)

\* the environments the process can be started in: Jira credentials absent,
\* partial or complete, Slack token absent or present, the default channel
\* left alone or overridden
SettingsSet ==
    {Settings(None, None, None, "#support-tickets"),
     Settings("bot@example.com", None, "xoxb-token", "#triage"),
     Settings("bot@example.com", "api-token", None, "#triage"),
     Settings("bot@example.com", "api-token", "xoxb-token", "#support-tickets")}

TicketIds == {"TEST-001", "TEST-002"}

TicketTexts ==
    {<<>>, <<"P","a","y","m","e","n","t">>, <<"d","e","f","e","c","t">>}

\* the RouteRequest bodies sent to POST /route
Tickets ==
    [ticket_id : TicketIds, text : TicketTexts,
     subject : {None, "Access Issue"}, from_email : {None, "user@example.com"},
     create_jira : BOOLEAN, send_slack : BOOLEAN]

\* the RouteRequest bodies sent in batches
BatchTickets ==
    {[ticket_id |-> "TEST-001", text |-> <<"P","a","y","m","e","n","t">>,
      subject |-> None, from_email |-> None,
      create_jira |-> TRUE, send_slack |-> TRUE],
     [ticket_id |-> "TEST-002", text |-> <<"d","e","f","e","c","t">>,
      subject |-> None, from_email |-> None,
      create_jira |-> TRUE, send_slack |-> FALSE],
     [ticket_id |-> "TEST-002", text |-> <<>>,
      subject |-> None, from_email |-> None,
      create_jira |-> FALSE, send_slack |-> FALSE]}

Batches == UNION {[1..n -> BatchTickets] : n \in 0..MaxBatch}

JiraOutcomes == {"created", "rejected", "exception"}
SlackOutcomes == {"ok", "not_ok", "exception"}

\* the key and id numbers an issue can get
IssueDraws ==
    {[key |-> MockKeyMin, id |-> MockIdMin], [key |-> MockKeyMax, id |-> MockIdMax]}

FirstDraw == [key |-> MockKeyMin, id |-> MockIdMin]

\* what the libraries do if the classifier is constructed by the request
LoadEnvs(instance) ==
    {l \in [loadOk : BOOLEAN, weights : Weights] :
        /\ (instance # Null \/ ~torch_available) => l.loadOk
        /\ (instance # Null \/ ~torch_available \/ ~l.loadOk) => l.weights = 0}

\* the classifier will attempt model inference
ModelMode(instance, load) ==
    /\ torch_available
    /\ IF instance = Null THEN load.loadOk ELSE ~instance.use_mock

JiraConfigured == Truthy(settings.JIRA_EMAIL) /\ Truthy(settings.JIRA_API_TOKEN)
SlackConfigured == Truthy(settings.SLACK_BOT_TOKEN)

\* what the collaborators do while one ticket is routed; an outcome that no
\* call of this ticket can observe is fixed
CallEnvs(ticket, modelMode) ==
    {e \in [inferenceOk : BOOLEAN, jira : JiraOutcomes, issue : IssueDraws,
            slack : SlackOutcomes, unexpected : {"none"}] :
        /\ ~modelMode => e.inferenceOk
        /\ ~(ticket.create_jira /\ JiraConfigured) => e.jira = "created"
        /\ (~ticket.create_jira \/ e.jira # "created") => e.issue = FirstDraw
        /\ ~(ticket.send_slack /\ SlackConfigured) => e.slack = "ok"}

\* the number of failing calls in an environment
Faults(e) ==
    (IF e.inferenceOk THEN 0 ELSE 1) + (IF e.jira = "created" THEN 0 ELSE 1)
        + (IF e.slack = "ok" THEN 0 ELSE 1)

\* the environments of the tickets of a batch, with at most `budget`
\* failing calls in all; the issues created get the first key and id
RECURSIVE BatchEnvs(_, _, _)
BatchEnvs(tickets, modelMode, budget) ==
    IF tickets = <<>> THEN {<<>>}
    ELSE UNION {{<<e>> \o rest :
                    rest \in BatchEnvs(Tail(tickets), modelMode,
                                       budget - Faults(e))} :
                e \in {x \in CallEnvs(Head(tickets), modelMode) :
                          Faults(x) <= budget /\ x.issue = FirstDraw}}

globals ==
    [classifier |-> _classifier_instance, jira |-> _jira_service_instance,
     slack |-> _slack_service_instance,
     watsonx |-> _watsonx_service_instance]

Init ==
    /\ torch_available \in BOOLEAN
    /\ settings \in SettingsSet
    /\ _classifier_instance = Null
    /\ _jira_service_instance = Null
    /\ _slack_service_instance = Null
    /\ _watsonx_service_instance = Null
    /\ _gmail_service_instance = Null
    /\ pending = EmptyBag
    /\ constructions = NoConstructions
    /\ request = Null
    /\ response = Null
    /\ previous = Null

\* a POST /route request arrives
ReceiveRoute(ticket) ==
    /\ request = Null /\ response = Null
    /\ request' = [op |-> "route", ticket |-> ticket]
    /\ UNCHANGED <<torch_available, settings, _classifier_instance,
                   _jira_service_instance, _slack_service_instance,
                   _watsonx_service_instance, _gmail_service_instance,
                   pending, constructions, response, previous>>

\* a POST /route/batch request arrives
ReceiveBatch(tickets) ==
    /\ request = Null /\ response = Null
    /\ request' = [op |-> "batch", tickets |-> tickets]
    /\ UNCHANGED <<torch_available, settings, _classifier_instance,
                   _jira_service_instance, _slack_service_instance,
                   _watsonx_service_instance, _gmail_service_instance,
                   pending, constructions, response, previous>>

\* the handler's result becomes the response, the instances are kept
Respond(r, envs) ==
    /\ _classifier_instance' = r.g.classifier
    /\ _jira_service_instance' = r.g.jira
    /\ _slack_service_instance' = r.g.slack
    /\ _watsonx_service_instance' = r.g.watsonx
    /\ response' = [op |-> request.op, request |-> request, status |-> r.status,
                    body |-> IF r.status = 200 THEN r.body ELSE Null,
                    detail |-> IF r.status = 200 THEN Null ELSE r.detail,
                    trace |-> r.trace, envs |-> envs]
    /\ request' = Null
    /\ UNCHANGED <<torch_available, settings, _gmail_service_instance,
                   pending, constructions, previous>>

\* the handler of POST /route
RouteTicket ==
    /\ request # Null /\ request.op = "route"
    /\ \E load \in LoadEnvs(_classifier_instance) :
         \E env \in CallEnvs(request.ticket,
                             ModelMode(_classifier_instance, load)) :
            /\ Faults(env) <= MaxFaults
            /\ \E r \in {route_ticket(globals, request.ticket, load, env)} :
                  Respond(r, <<env>>)

\* the handler of POST /route/batch
RouteTicketsBatch ==
    /\ request # Null /\ request.op = "batch"
    /\ \E load \in LoadEnvs(_classifier_instance) :
         \E envs \in BatchEnvs(request.tickets,
                               ModelMode(_classifier_instance, load),
                               MaxFaults) :
            \E r \in {route_tickets_batch(globals, request.tickets, load, envs)} :
               Respond(r, envs)

\* the response has been sent
Deliver ==
    /\ response # Null
    /\ response' = Null
    /\ UNCHANGED <<torch_available, settings, _classifier_instance,
                   _jira_service_instance, _slack_service_instance,
                   _watsonx_service_instance, _gmail_service_instance,
                   pending, constructions, request, previous>>

Next ==
    \/ \E ticket \in Tickets : ReceiveRoute(ticket)
    \/ \E tickets \in Batches : ReceiveBatch(tickets)
    \/ RouteTicket
    \/ RouteTicketsBatch
    \/ Deliver

Spec == Init /\ [][Next]_vars

-----------------------------------------------------------------------------
(* The watsonx adapter on its own: calls of generate_response,             *)
(* suggest_reply and summarize_ticket on get_watsonx_service().            *)

\* environments with the watsonx credentials absent, partial and complete
WatsonxSettingsSet ==
    {DefaultSettings,
     [DefaultSettings EXCEPT !.WATSONX_API_KEY = "api-key"],
     [DefaultSettings EXCEPT !.WATSONX_API_KEY = "api-key",
                             !.WATSONX_PROJECT_ID = "project"]}

WatsonxConfigured ==
    Truthy(settings.WATSONX_API_KEY) /\ Truthy(settings.WATSONX_PROJECT_ID)

PromptWords ==
    {<<"S","u","g","g","e","s","t">>,
     <<"R","E","S","P","O","N","S","E">>,
     <<"S","u","m","m","a","r","i","z","e">>,
     <<"h","e","l","l","o">>}

\* the prompts given to generate_response directly
Prompts == {Join(ws) : ws \in UNION {[1..n -> PromptWords] : n \in 0..MaxWords}}

\* the ticket texts given to suggest_reply and summarize_ticket
WatsonxTexts ==
    {<<>>, <<"P","a","y","m","e","n","t">>,
     <<"N","o"," ","r","e","s","p","o","n","s","e">>,
     <<"I"," ","S","u","g","g","e","s","t","e","d">>}

InitWatsonx ==
    /\ torch_available = FALSE
    /\ settings \in WatsonxSettingsSet
    /\ _classifier_instance = Null
    /\ _jira_service_instance = Null
    /\ _slack_service_instance = Null
    /\ _watsonx_service_instance = Null
    /\ _gmail_service_instance = Null
    /\ pending = EmptyBag
    /\ constructions = NoConstructions
    /\ request = Null
    /\ response = Null
    /\ previous = Null

\* a caller is about to call generate_response
CallGenerateResponse(prompt) ==
    /\ request = Null
    /\ request' = [op |-> "generate_response", prompt |-> prompt]
    /\ response' = Null
    /\ UNCHANGED <<torch_available, settings, _classifier_instance,
                   _jira_service_instance, _slack_service_instance,
                   _watsonx_service_instance, _gmail_service_instance,
                   pending, constructions, previous>>

\* a caller is about to call suggest_reply
CallSuggestReply(ticket_text, category) ==
    /\ request = Null
    /\ request' = [op |-> "suggest_reply", ticket_text |-> ticket_text,
                   category |-> category]
    /\ response' = Null
    /\ UNCHANGED <<torch_available, settings, _classifier_instance,
                   _jira_service_instance, _slack_service_instance,
                   _watsonx_service_instance, _gmail_service_instance,
                   pending, constructions, previous>>

\* a caller is about to call summarize_ticket
CallSummarizeTicket(ticket_text) ==
    /\ request = Null
    /\ request' = [op |-> "summarize_ticket", ticket_text |-> ticket_text]
    /\ response' = Null
    /\ UNCHANGED <<torch_available, settings, _classifier_instance,
                   _jira_service_instance, _slack_service_instance,
                   _watsonx_service_instance, _gmail_service_instance,
                   pending, constructions, previous>>

\* the prompt a call hands to generate_response
PromptOf(call) ==
    CASE call.op = "generate_response" -> call.prompt
      [] call.op = "suggest_reply" ->
            suggest_prompt(call.ticket_text, call.category)
      [] call.op = "summarize_ticket" -> summarize_prompt(call.ticket_text)

\* the method of the adapter that a call names
WatsonxMethod(self, call, outcome) ==
    CASE call.op = "generate_response" ->
            generate_response(self, call.prompt, 200, outcome)
      [] call.op = "suggest_reply" ->
            suggest_reply(self, call.ticket_text, call.category, outcome)
      [] call.op = "summarize_ticket" ->
            summarize_ticket(self, call.ticket_text, outcome)

\* what the SDK does during one call; an outcome that the call cannot
\* observe is fixed
WatsonxEnvs(instance) ==
    {e \in [sdk : SdkOutcomes, outcome : GenerateOutcomes] :
        /\ (instance # Null \/ ~WatsonxConfigured) => e.sdk = "ok"
        /\ (IF instance = Null THEN ~WatsonxConfigured \/ e.sdk # "ok"
                               ELSE ~instance.available)
              => e.outcome = "generated"}

\* get_watsonx_service() followed by the method called
Generate(env) ==
    /\ request # Null
    /\ request.op \in {"generate_response", "suggest_reply", "summarize_ticket"}
    /\ \E watsonx \in {get_watsonx_service(_watsonx_service_instance, env.sdk)} :
       \E r \in {WatsonxMethod(watsonx, request, env.outcome)} :
           /\ _watsonx_service_instance' = r.self
           /\ response' = [op |-> request.op, request |-> request,
                           available |-> watsonx.available,
                           outcome |-> env.outcome,
                           raised |-> r.raised,
                           result |-> IF r.raised THEN Null ELSE r.value,
                           remote |-> IF r.raised THEN <<>> ELSE r.remote]
    /\ request' = Null
    /\ UNCHANGED <<torch_available, settings, _classifier_instance,
                   _jira_service_instance, _slack_service_instance,
                   _gmail_service_instance, pending, constructions, previous>>

NextWatsonx ==
    \/ \E prompt \in Prompts : CallGenerateResponse(prompt)
    \/ \E ticket_text \in WatsonxTexts, category \in CategorySet :
          CallSuggestReply(ticket_text, category)
    \/ \E ticket_text \in WatsonxTexts : CallSummarizeTicket(ticket_text)
    \/ \E env \in WatsonxEnvs(_watsonx_service_instance) : Generate(env)

SpecWatsonx == InitWatsonx /\ [][NextWatsonx]_vars

-----------------------------------------------------------------------------
(* The three endpoints together: POST /classify, POST /route and           *)
(* POST /route/batch, in environments from nothing configured to           *)
(* everything configured.                                                  *)

ApiSettingsSet ==
    {DefaultSettings,
     [Settings("bot@example.com", None, None, "#support-tickets")
        EXCEPT !.WATSONX_API_KEY = "api-key"],
     [Settings("bot@example.com", "api-token", "xoxb-token", "#triage")
        EXCEPT !.WATSONX_API_KEY = "api-key", !.WATSONX_PROJECT_ID = "project"]}

\* the TicketRequest bodies sent to POST /classify
ClassifyRequests ==
    [text : {<<>>, <<"N","o"," ","r","e","s","p","o","n","s","e">>},
     include_suggestion : BOOLEAN, include_summary : BOOLEAN]

\* the RouteRequest bodies sent to POST /route
ApiTickets ==
    [ticket_id : {"TEST-001"}, text : {<<>>, <<"P","a","y","m","e","n","t">>},
     subject : {None}, from_email : {None},
     create_jira : BOOLEAN, send_slack : BOOLEAN]

\* the batches sent to POST /route/batch
ApiBatches ==
    UNION {[1..n -> {t \in BatchTickets : t.create_jira}] : n \in 0..MaxBatch}

\* the adapter that classify_ticket gets will call the backend
WatsonxAvailable(instance, sdk) ==
    IF instance = Null THEN WatsonxConfigured /\ sdk = "ok"
    ELSE instance.available

\* what the libraries do while one ticket is classified; an outcome that no
\* call of this request can observe is fixed
ClassifyEnvs(req, modelMode, instance) ==
    {e \in [inferenceOk : BOOLEAN, sdk : SdkOutcomes, suggest : GenerateOutcomes,
            summary : GenerateOutcomes, unexpected : {"none"}] :
        /\ ~modelMode => e.inferenceOk
        /\ (\/ instance # Null
            \/ ~WatsonxConfigured
            \/ ~(req.include_suggestion \/ req.include_summary))
              => e.sdk = "ok"
        /\ ~(req.include_suggestion /\ WatsonxAvailable(instance, e.sdk))
              => e.suggest = "generated"
        /\ ~(req.include_summary /\ WatsonxAvailable(instance, e.sdk))
              => e.summary = "generated"}

\* the number of failing calls in an environment of classify_ticket
ClassifyFaults(e) ==
    (IF e.inferenceOk THEN 0 ELSE 1) + (IF e.sdk = "ok" THEN 0 ELSE 1)
        + (IF e.suggest = "generated" THEN 0 ELSE 1)
        + (IF e.summary = "generated" THEN 0 ELSE 1)

InitApi ==
    /\ torch_available \in BOOLEAN
    /\ settings \in ApiSettingsSet
    /\ _classifier_instance = Null
    /\ _jira_service_instance = Null
    /\ _slack_service_instance = Null
    /\ _watsonx_service_instance = Null
    /\ _gmail_service_instance = Null
    /\ pending = EmptyBag
    /\ constructions = NoConstructions
    /\ request = Null
    /\ response = Null
    /\ previous = Null

\* a POST /classify request arrives
ReceiveClassify(req) ==
    /\ request = Null /\ response = Null
    /\ request' = [op |-> "classify_ticket", ticket |-> req]
    /\ UNCHANGED <<torch_available, settings, _classifier_instance,
                   _jira_service_instance, _slack_service_instance,
                   _watsonx_service_instance, _gmail_service_instance,
                   pending, constructions, response, previous>>

\* the handler of POST /classify
ClassifyTicket ==
    /\ request # Null /\ request.op = "classify_ticket"
    /\ \E load \in LoadEnvs(_classifier_instance) :
         \E env \in ClassifyEnvs(request.ticket,
                                 ModelMode(_classifier_instance, load),
                                 _watsonx_service_instance) :
            /\ ClassifyFaults(env) <= MaxFaults
            /\ \E r \in {classify_ticket(globals, request.ticket, load, env)} :
                  Respond(r, <<env>>)

NextApi ==
    \/ \E req \in ClassifyRequests : ReceiveClassify(req)
    \/ \E ticket \in ApiTickets : ReceiveRoute(ticket)
    \/ \E tickets \in ApiBatches : ReceiveBatch(tickets)
    \/ ClassifyTicket
    \/ RouteTicket
    \/ RouteTicketsBatch
    \/ Deliver

SpecApi == InitApi /\ [][NextApi]_vars

-----------------------------------------------------------------------------
(* The three adapters on their own: any sequence of calls of their public  *)
(* methods on the instances the getters give.                              *)

AdapterSettingsSet ==
    {DefaultSettings,
     [Settings("bot@example.com", None, None, "#support-tickets")
        EXCEPT !.WATSONX_API_KEY = "api-key"],
     [Settings(None, "api-token", "xoxb-token", "#triage")
        EXCEPT !.WATSONX_PROJECT_ID = "project"],
     [Settings("bot@example.com", "api-token", "xoxb-token", "#triage")
        EXCEPT !.WATSONX_API_KEY = "api-key", !.WATSONX_PROJECT_ID = "project"]}

InitAdapters ==
    /\ torch_available = FALSE
    /\ settings \in AdapterSettingsSet
    /\ _classifier_instance = Null
    /\ _jira_service_instance = Null
    /\ _slack_service_instance = Null
    /\ _watsonx_service_instance = Null
    /\ _gmail_service_instance = Null
    /\ pending = EmptyBag
    /\ constructions = NoConstructions
    /\ request = Null
    /\ response = Null
    /\ previous = Null

\* the calls made on the Jira adapter
JiraCalls ==
    [op : {"create_issue"}, summary : {"Payment failed"},
     priority : {"High", "Medium"}]
    \cup [op : {"update_issue"}, issue_key : {"SUP-1000"},
          summary : {None, "Payment failed"}, description : {None, ""},
          priority : {None, "High"}]

\* the calls made on the Slack adapter
SlackCalls ==
    [op : {"send_message"}, text : {"hello"}, channel : {None, "#billing"}]
    \cup [op : {"send_ticket_notification"}, ticket_id : {"TEST-001"},
          category : {"billing", "general"},
          jira_key : {Null, [fmt |-> "{}-{}", args |-> <<"SUP", MockKeyMin>>]}]

\* the calls made on the watsonx adapter
WatsonxCalls ==
    [op : {"generate_response"}, prompt : {<<"h","e","l","l","o">>}]
    \cup [op : {"suggest_reply"}, ticket_text : {<<"P","a","y","m","e","n","t">>},
          category : {"billing"}]
    \cup [op : {"summarize_ticket"}, ticket_text : {<<"P","a","y","m","e","n","t">>}]

\* the method of the Jira adapter that a call names
JiraMethod(self, call, outcome, draw) ==
    CASE call.op = "create_issue" ->
            create_issue(self, call.summary, "", "Task", call.priority, <<>>,
                         outcome, draw)
      [] call.op = "update_issue" ->
            update_issue(self, call.issue_key, call.summary, call.description,
                         call.priority, outcome)

\* the method of the Slack adapter that a call names
SlackMethod(self, call, outcome) ==
    CASE call.op = "send_message" ->
            send_message(self, call.text, call.channel, None, outcome)
      [] call.op = "send_ticket_notification" ->
            send_ticket_notification(self, call.ticket_id, call.category,
                                     "Payment failed", call.jira_key, None,
                                     outcome)

\* the answer of an adapter to a call becomes the response; before is the
\* instance the getter gave, r.self the instance as the call leaves it
Answer(adapter, call, before, r, outcome) ==
    /\ response' = [op |-> call.op, adapter |-> adapter, request |-> call,
                    before |-> before, after |-> r.self, outcome |-> outcome,
                    raised |-> r.raised,
                    result |-> IF r.raised THEN Null ELSE r.value,
                    remote |-> IF r.raised THEN <<>> ELSE r.remote]
    /\ UNCHANGED <<torch_available, settings, _classifier_instance,
                   _gmail_service_instance, pending, constructions, request,
                   previous>>

\* get_jira_service() followed by the method called
CallJira(call, outcome, draw) ==
    \E jira \in {get_jira_service(_jira_service_instance)} :
    \E r \in {JiraMethod(jira, call, IF call.op = "create_issue"
                                     THEN outcome.jira ELSE outcome.update,
                         draw)} :
        /\ _jira_service_instance' = r.self
        /\ Answer("jira", call, jira, r, outcome)
        /\ UNCHANGED <<_slack_service_instance, _watsonx_service_instance>>

\* get_slack_service() followed by the method called
CallSlack(call, outcome) ==
    \E slack \in {get_slack_service(_slack_service_instance)} :
    \E r \in {SlackMethod(slack, call, outcome)} :
        /\ _slack_service_instance' = r.self
        /\ Answer("slack", call, slack, r, outcome)
        /\ UNCHANGED <<_jira_service_instance, _watsonx_service_instance>>

\* get_watsonx_service() followed by the method called
CallAdapterWatsonx(call, env) ==
    \E watsonx \in {get_watsonx_service(_watsonx_service_instance, env.sdk)} :
    \E r \in {WatsonxMethod(watsonx, call, env.outcome)} :
        /\ _watsonx_service_instance' = r.self
        /\ Answer("watsonx", call, watsonx, r, env)
        /\ UNCHANGED <<_jira_service_instance, _slack_service_instance>>

NextAdapters ==
    \/ \E call \in JiraCalls :
       \E outcome \in [jira : JiraOutcomes, update : UpdateOutcomes] :
       \E draw \in IssueDraws :
          /\ call.op = "create_issue" => outcome.update = "updated"
          /\ call.op = "update_issue" =>
                outcome.jira = "created" /\ draw = FirstDraw
          /\ CallJira(call, outcome, draw)
    \/ \E call \in SlackCalls, outcome \in SlackOutcomes :
          CallSlack(call, outcome)
    \/ \E call \in WatsonxCalls :
       \E env \in [sdk : SdkOutcomes, outcome : GenerateOutcomes] :
          /\ _watsonx_service_instance # Null => env.sdk = "ok"
          /\ CallAdapterWatsonx(call, env)

SpecAdapters == InitAdapters /\ [][NextAdapters]_vars

-----------------------------------------------------------------------------
(* POST /classify and POST /route with an exception that no callee handles *)
(* arising in one of the calls of the handler.                             *)

\* the calls of route_ticket
RoutePoints ==
    {"get_classifier", "classify", "get_jira_service", "create_issue",
     "get_slack_service", "send_ticket_notification", "response"}

\* the calls of classify_ticket
ClassifyPoints ==
    {"get_classifier", "classify", "get_watsonx_service", "suggest_reply",
     "summarize_ticket", "response"}

FaultSettingsSet ==
    {DefaultSettings,
     [Settings("bot@example.com", "api-token", "xoxb-token", "#triage")
        EXCEPT !.WATSONX_API_KEY = "api-key", !.WATSONX_PROJECT_ID = "project"]}

InitFaults ==
    /\ torch_available \in BOOLEAN
    /\ settings \in FaultSettingsSet
    /\ _classifier_instance = Null
    /\ _jira_service_instance = Null
    /\ _slack_service_instance = Null
    /\ _watsonx_service_instance = Null
    /\ _gmail_service_instance = Null
    /\ pending = EmptyBag
    /\ constructions = NoConstructions
    /\ request = Null
    /\ response = Null
    /\ previous = Null

\* the handler of POST /route, an exception arising at `point`
RouteTicketWithFault(point) ==
    /\ request # Null /\ request.op = "route"
    /\ \E load \in LoadEnvs(_classifier_instance) :
         \E e \in CallEnvs(request.ticket,
                           ModelMode(_classifier_instance, load)) :
            /\ Faults(e) <= MaxFaults - 1
            /\ \E env \in {[e EXCEPT !.unexpected = point]} :
               \E r \in {route_ticket(globals, request.ticket, load, env)} :
                  Respond(r, <<env>>)

\* the handler of POST /classify, an exception arising at `point`
ClassifyTicketWithFault(point) ==
    /\ request # Null /\ request.op = "classify_ticket"
    /\ \E load \in LoadEnvs(_classifier_instance) :
         \E e \in ClassifyEnvs(request.ticket,
                               ModelMode(_classifier_instance, load),
                               _watsonx_service_instance) :
            /\ ClassifyFaults(e) <= MaxFaults - 1
            /\ \E env \in {[e EXCEPT !.unexpected = point]} :
               \E r \in {classify_ticket(globals, request.ticket, load, env)} :
                  Respond(r, <<env>>)

\* the batches sent while exceptions arise
FaultBatches == ApiBatches \ {<<>>}

\* the handler of POST /route/batch, an exception arising at `point` while
\* the k-th ticket is routed
RouteTicketsBatchWithFault(k, point) ==
    /\ request # Null /\ request.op = "batch"
    /\ k \in DOMAIN request.tickets
    /\ \E load \in LoadEnvs(_classifier_instance) :
         \E es \in BatchEnvs(request.tickets,
                             ModelMode(_classifier_instance, load),
                             MaxFaults - 1) :
            \E envs \in {[es EXCEPT ![k].unexpected = point]} :
               \E r \in {route_tickets_batch(globals, request.tickets, load,
                                              envs)} :
                  Respond(r, envs)

NextFaults ==
    \/ \E req \in ClassifyRequests : ReceiveClassify(req)
    \/ \E ticket \in ApiTickets : ReceiveRoute(ticket)
    \/ \E point \in ClassifyPoints : ClassifyTicketWithFault(point)
    \/ \E point \in RoutePoints : RouteTicketWithFault(point)
    \/ Deliver

SpecFaults == InitFaults /\ [][NextFaults]_vars

\* POST /route/batch with an exception arising for one of the tickets; the
\* classifier is the keyword classifier
InitBatchFaults ==
    /\ torch_available = FALSE
    /\ settings \in FaultSettingsSet
    /\ _classifier_instance = Null
    /\ _jira_service_instance = Null
    /\ _slack_service_instance = Null
    /\ _watsonx_service_instance = Null
    /\ _gmail_service_instance = Null
    /\ pending = EmptyBag
    /\ constructions = NoConstructions
    /\ request = Null
    /\ response = Null
    /\ previous = Null

NextBatchFaults ==
    \/ \E tickets \in FaultBatches : ReceiveBatch(tickets)
    \/ \E k \in 1..MaxBatch :
          \E point \in RoutePoints : RouteTicketsBatchWithFault(k, point)
    \/ Deliver

SpecBatchFaults == InitBatchFaults /\ [][NextBatchFaults]_vars

-----------------------------------------------------------------------------
(* The Gmail reader on its own: calls of get_gmail_service().fetch_tickets. *)

GmailSettingsSet ==
    {DefaultSettings,
     [DefaultSettings EXCEPT !.GMAIL_REFRESH_TOKEN = "refresh-token"]}

GmailConfigured == Truthy(settings.GMAIL_REFRESH_TOKEN)

MessageIds == {"m1", "m2"}

\* the entries of a listing: the id may be missing from an entry
ListedMessages ==
    [id : MessageIds, has_id : {TRUE}, parse : ParseOutcomes]
    \cup [id : {"m1"}, has_id : {FALSE}, parse : {"full"}]

\* what the list call can do when at most max_results messages are asked for
Listings(max_results) ==
    {[outcome |-> o, messages |-> <<>>] : o \in ListOutcomes}
    \cup {[outcome |-> "listed", messages |-> ms] :
            ms \in UNION {[1..n -> ListedMessages] : n \in 1..max_results}}

InitGmail ==
    /\ torch_available = FALSE
    /\ settings \in GmailSettingsSet
    /\ _classifier_instance = Null
    /\ _jira_service_instance = Null
    /\ _slack_service_instance = Null
    /\ _watsonx_service_instance = Null
    /\ _gmail_service_instance = Null
    /\ pending = EmptyBag
    /\ constructions = NoConstructions
    /\ request = Null
    /\ response = Null
    /\ previous = Null

\* a caller is about to fetch tickets
CallFetchTickets(query, max_results) ==
    /\ request = Null
    /\ request' = [op |-> "fetch_tickets", query |-> query,
                   max_results |-> max_results]
    /\ response' = Null
    /\ UNCHANGED <<torch_available, settings, _classifier_instance,
                   _jira_service_instance, _slack_service_instance,
                   _watsonx_service_instance, _gmail_service_instance,
                   pending, constructions, previous>>

\* get_gmail_service() followed by fetch_tickets
FetchTickets(auth, listing) ==
    /\ request # Null /\ request.op = "fetch_tickets"
    /\ \E gmail \in {get_gmail_service(_gmail_service_instance, auth)} :
       \E r \in {fetch_tickets(gmail, request.query, request.max_results,
                               listing, "now")} :
           /\ _gmail_service_instance' = r.self
           /\ response' = [op |-> "fetch_tickets", request |-> request,
                           authenticated |-> gmail.service # Null,
                           listing |-> listing,
                           raised |-> r.raised,
                           result |-> IF r.raised THEN Null ELSE r.value,
                           remote |-> IF r.raised THEN <<>> ELSE r.remote]
    /\ request' = Null
    /\ UNCHANGED <<torch_available, settings, _classifier_instance,
                   _jira_service_instance, _slack_service_instance,
                   _watsonx_service_instance, pending, constructions, previous>>

\* the number of messages the pending call asks for
Asked ==
    IF request # Null /\ request.op = "fetch_tickets"
    THEN request.max_results ELSE 0

NextGmail ==
    \/ \E query \in {"is:unread", "label:support"}, max_results \in 1..MaxMessages :
          CallFetchTickets(query, max_results)
    \/ \E auth \in AuthOutcomes :
          /\ (_gmail_service_instance # Null \/ ~GmailConfigured) => auth = "ok"
          /\ \E listing \in Listings(Asked) :
                /\ (IF _gmail_service_instance # Null
                    THEN _gmail_service_instance.service = Null
                    ELSE ~GmailConfigured \/ auth # "ok")
                      => listing = [outcome |-> "listed", messages |-> <<>>]
                /\ FetchTickets(auth, listing)

SpecGmail == InitGmail /\ [][NextGmail]_vars

-----------------------------------------------------------------------------
(* Concurrent requests (app/main.py).  Every handler and the start-up hook *)
(* is a coroutine on the one event loop of the process.  None of them has  *)
(* a point at which it is suspended: the handlers call the services        *)
(* synchronously, and `await route_ticket(ticket)` in route_tickets_batch  *)
(* runs a coroutine that never yields.  So the loop runs a handler from    *)
(* its first line to its return before it starts another one, in any      *)
(* order of the requests that are waiting.                                 *)

\* the coroutines that the loop runs
TaskOps == {"lifespan", "root", "health", "classify_ticket", "route", "batch"}

\* the ticket the concurrent requests carry
ConcurrentTicket ==
    [ticket_id |-> "TEST-001", text |-> <<"P","a","y","m","e","n","t">>,
     subject |-> None, from_email |-> None,
     create_jira |-> TRUE, send_slack |-> TRUE]

\* the body of the concurrent requests to POST /classify
ConcurrentRequest ==
    [text |-> <<"P","a","y","m","e","n","t">>, include_suggestion |-> TRUE,
     include_summary |-> FALSE]

\* what the libraries would do if a service were constructed now
BuildEnvs ==
    {b \in [loadOk : BOOLEAN, weights : Weights, sdk : SdkOutcomes] :
        /\ ~torch_available => (b.loadOk /\ b.weights = 0)
        /\ ~b.loadOk => b.weights = 0
        /\ ~WatsonxConfigured => b.sdk = "ok"}

\* the collaborators answer
QuietRoute ==
    [inferenceOk |-> TRUE, jira |-> "created", issue |-> FirstDraw,
     slack |-> "ok", unexpected |-> "none"]

QuietClassify(sdk) ==
    [inferenceOk |-> TRUE, sdk |-> sdk, suggest |-> "generated",
     summary |-> "generated", unexpected |-> "none"]

\* the globals as the coroutine `op` leaves them when it runs from g
RunTask(op, g, b) ==
    CASE op \in {"lifespan", "health"} ->
            [g EXCEPT !.classifier = get_classifier(g.classifier, b.loadOk,
                                                    b.weights)]
      [] op = "root" -> g
      [] op = "classify_ticket" ->
            classify_ticket(g, ConcurrentRequest, b, QuietClassify(b.sdk)).g
      [] op = "route" -> route_ticket(g, ConcurrentTicket, b, QuietRoute).g
      [] op = "batch" ->
            route_tickets_batch(g, <<ConcurrentTicket, ConcurrentTicket>>, b,
                                <<QuietRoute, QuietRoute>>).g

\* the number of instantiations between two values of a global
Built(before, after) == IF after # before THEN 1 ELSE 0

\* the process starts; the start-up hook runs unless the application is
\* used without its lifespan, as by a test client that is not entered
InitConcurrent ==
    /\ torch_available \in BOOLEAN
    /\ settings \in FaultSettingsSet
    /\ _classifier_instance = Null
    /\ _jira_service_instance = Null
    /\ _slack_service_instance = Null
    /\ _watsonx_service_instance = Null
    /\ _gmail_service_instance = Null
    /\ pending \in {EmptyBag, SetToBag({"lifespan"})}
    /\ constructions = NoConstructions
    /\ request = Null
    /\ response = Null
    /\ previous = Null

\* the start-up hook has run: requests are accepted
Started == ~BagIn("lifespan", pending)

\* a request arrives while others are waiting
Arrive(op) ==
    /\ Started
    /\ op # "lifespan"
    /\ BagCardinality(pending) < MaxPending
    /\ pending' = pending (+) SetToBag({op})
    /\ UNCHANGED <<torch_available, settings, _classifier_instance,
                   _jira_service_instance, _slack_service_instance,
                   _watsonx_service_instance, _gmail_service_instance,
                   constructions, request, response, previous>>

\* the loop runs one of the waiting coroutines to its end
Run(op, b) ==
    /\ BagIn(op, pending)
    /\ \E g \in {RunTask(op, globals, b)} :
          /\ _classifier_instance' = g.classifier
          /\ _jira_service_instance' = g.jira
          /\ _slack_service_instance' = g.slack
          /\ _watsonx_service_instance' = g.watsonx
          /\ constructions' =
                [s \in Singletons |->
                    IF s = "gmail" THEN constructions[s]
                    ELSE constructions[s] + Built(globals[s], g[s])]
          /\ response' = [op |-> "run", task |-> op, before |-> globals,
                          after |-> g]
    /\ pending' = pending (-) SetToBag({op})
    /\ UNCHANGED <<torch_available, settings, _gmail_service_instance,
                   request, previous>>

NextConcurrent ==
    \/ \E op \in TaskOps : Arrive(op)
    \/ \E op \in TaskOps, b \in BuildEnvs : Run(op, b)

SpecConcurrent == InitConcurrent /\ [][NextConcurrent]_vars

-----------------------------------------------------------------------------
(* Properties of TicketClassifier.classify. *)

\* a classify call has returned
Classified == response # Null /\ response.op = "classify"

\* the call was answered by the keyword classifier (mock mode or fallback)
KeywordAnswer == Classified /\ response.path \in {"keyword", "fallback"}

\* the categories that have a keyword occurring in the lower-cased text
Matched(text) ==
    {c \in CategorySet :
        \E i \in 1..Len(keywords[c]) : In(keywords[c][i], lower(text))}

\* the number of keywords of a category occurring in the lower-cased text
Hits(c, text) ==
    Cardinality({i \in 1..Len(keywords[c]) : In(keywords[c][i], lower(text))})

IsOne(x) == x.den > 0 /\ x.num = x.den
IsZero(x) == x.den > 0 /\ x.num = 0

\* the sum of the values of a scores mapping is 1: cross-multiplied to the
\* common denominator of the first entry
SumsToOne(scores) ==
    LET d == scores[CATEGORIES[1]].den
    IN  /\ \A c \in CategorySet : scores[c].den = d
        /\ SumSeq([i \in 1..Len(CATEGORIES) |-> scores[CATEGORIES[i]].num]) = d

\* C1: for every input string, the empty one included, classify returns a
\* category of CATEGORIES and a scores mapping with exactly the six
\* categories as keys, every value in [0,1], the values summing to 1.
C1_ScoresAreDistribution ==
    Classified =>
        /\ ~response.raised
        /\ response.result.category \in CategorySet
        /\ DOMAIN response.result.scores = CategorySet
        /\ \A c \in CategorySet :
              /\ response.result.scores[c].den > 0
              /\ 0 <= response.result.scores[c].num
              /\ response.result.scores[c].num <= response.result.scores[c].den
        /\ SumsToOne(response.result.scores)

\* a keyword answer in which two categories share the probability mass
C1_Witness ==
    /\ KeywordAnswer
    /\ Cardinality({c \in CategorySet : response.result.scores[c].num > 0}) >= 2

\* C2 as stated: classify on a text without any keyword (the empty string
\* included) returns "general" with confidence 1.0 and 0 for the others,
\* whatever the mode of the classifier.
C2_Original ==
    (Classified /\ Matched(response.text) = {}) =>
        /\ ~response.raised
        /\ response.result.category = "general"
        /\ IsOne(response.result.confidence)
        /\ \A c \in CategorySet \ {"general"} : IsZero(response.result.scores[c])

\* C2 amended: when the call is answered by the keyword classifier (mock
\* mode, or the fallback after a failed inference), a text without any
\* keyword (the empty string included) gets "general" with confidence 1.0
\* and 0 for every other category, and the call does not raise.
C2_NoKeywordIsGeneral ==
    (KeywordAnswer /\ Matched(response.text) = {}) =>
        /\ ~response.raised
        /\ response.result.category = "general"
        /\ IsOne(response.result.confidence)
        /\ IsOne(response.result.scores["general"])
        /\ \A c \in CategorySet \ {"general"} : IsZero(response.result.scores[c])

\* the empty string was classified by the keyword classifier
C2_Witness == KeywordAnswer /\ response.text = <<>>

\* C3: in keyword mode a text with keywords of exactly one category gets that
\* category with confidence 1.0, however many of its keywords are matched.
C3_SingleCategory ==
    (KeywordAnswer /\ Cardinality(Matched(response.text)) = 1) =>
        /\ response.result.category \in Matched(response.text)
        /\ IsOne(response.result.confidence)

\* one category matched by a single keyword written with a capital letter
C3_Witness ==
    /\ KeywordAnswer
    /\ response.text = <<"P","a","y","m","e","n","t">>
    /\ response.result.category = "billing"

\* one category matched by so many keywords that its raw score is clipped
C3_WitnessClipped ==
    /\ KeywordAnswer
    /\ Matched(response.text) = {"billing"}
    /\ KeywordWeight * Hits("billing", response.text) > ScoreOne

\* two consecutive classify calls on the same text have returned
Repeated == Classified /\ previous # Null

\* C4 as stated: two classify calls on the same text, with the same mode of
\* the classifier, return identical results.
C4_Original ==
    (Repeated /\ previous.use_mock = response.use_mock) =>
        /\ response.raised = previous.raised
        /\ response.result = previous.result

\* C4 amended: two classify calls on the same text with the same mode and
\* the same outcome of the inference step (both in keyword mode, both with a
\* successful inference, or both falling back) return identical category,
\* confidence, scores and model; and a classify call leaves the classifier
\* object as it found it.
C4_Deterministic ==
    [][/\ (Repeated /\ previous.use_mock = response.use_mock
                    /\ previous.path = response.path)'
            => (response.raised = previous.raised
                /\ response.result = previous.result)'
       /\ (_classifier_instance # Null)
            => (_classifier_instance' = _classifier_instance)]_vars

\* the model answered two consecutive calls on the same text
C4_Witness ==
    /\ Repeated
    /\ previous.path = "model"
    /\ response.path = "model"

\* C5: classify never raises; a failed inference yields the keyword result
\* for the same text (model "mock-classifier") and leaves use_mock as it
\* was, which is written only when the classifier is constructed.
C5_FallbackPerCall ==
    [][/\ Classified' => ~response'.raised
       /\ (Classified' /\ response'.path = "fallback")
            => /\ response'.result = _classify_mock(response'.text)
               /\ response'.result.model = "mock-classifier"
               /\ ~_classifier_instance'.use_mock
       /\ (_classifier_instance # Null)
            => (_classifier_instance'.use_mock = _classifier_instance.use_mock)]_vars

\* after a call that fell back, the next call on the same text was answered
\* by the model
C5_Witness ==
    /\ Repeated
    /\ previous.path = "fallback"
    /\ response.path = "model"
    /\ response.result.model = settings.MODEL_NAME

-----------------------------------------------------------------------------
(* Properties of route_ticket and route_tickets_batch. *)

\* a POST /route request has been answered
Routed == response # Null /\ response.op = "route"

\* a POST /route/batch request has been answered
Batched == response # Null /\ response.op = "batch"

\* the calls of one kind made while the request was handled
CallsOf(kind) ==
    {i \in 1..Len(response.trace) : response.trace[i].call = kind}

\* the routing entry the documentation gives for a category
DocumentedRouting(category) ==
    CASE category = "billing" ->
            [jira_priority |-> "High", slack_channel |-> "#billing"]
      [] category = "technical" ->
            [jira_priority |-> "Medium", slack_channel |-> "#technical"]
      [] category = "access" ->
            [jira_priority |-> "High", slack_channel |-> "#access"]
      [] category = "general" ->
            [jira_priority |-> "Low", slack_channel |-> "#general"]
      [] category \in {"bug_report", "feature_request"} ->
            [jira_priority |-> "Medium",
             slack_channel |-> settings.SLACK_CHANNEL_ID]

\* C6: the routing configuration in a route response is the CATEGORY_ROUTING
\* entry of the classified category if it has one and the default (Medium,
\* configured default channel) for bug_report and feature_request; the
\* lookup does not fail and leaves the table as it was.
C6_RoutingLookup ==
    Routed =>
        /\ response.status = 200
        /\ response.body.category \in CategorySet
        /\ response.body.routing_config = DocumentedRouting(response.body.category)
        /\ DOMAIN settings.CATEGORY_ROUTING
              = {"billing", "technical", "access", "general"}
        /\ \A c \in DOMAIN settings.CATEGORY_ROUTING :
              settings.CATEGORY_ROUTING[c] = DocumentedRouting(c)

\* an unmapped category was routed while the default channel is overridden
C6_Witness ==
    /\ Routed
    /\ response.status = 200
    /\ response.body.category = "bug_report"
    /\ settings.SLACK_CHANNEL_ID = "#triage"
    /\ response.body.routing_config.slack_channel = "#triage"

\* a mapped category was routed
C6_WitnessMapped ==
    /\ Routed
    /\ response.status = 200
    /\ response.body.category = "billing"
    /\ response.body.routing_config.jira_priority = "High"

\* C7: with create_jira=false no create_issue call is made and jira_issue is
\* null; with send_slack=false no notifier call is made and slack_message is
\* null; either way the response is a success that carries the ticket_id of
\* the request and the category, confidence and routing_config of the
\* classification.
C7_FlagsOff ==
    (Routed /\ (~response.request.ticket.create_jira
                    \/ ~response.request.ticket.send_slack)) =>
        /\ ~response.request.ticket.create_jira =>
              /\ CallsOf("create_issue") = {}
              /\ response.status = 200 /\ response.body.jira_issue = Null
        /\ ~response.request.ticket.send_slack =>
              /\ CallsOf("send_ticket_notification") = {}
              /\ response.status = 200 /\ response.body.slack_message = Null
        /\ response.status = 200
        /\ response.body.ticket_id = response.request.ticket.ticket_id
        /\ response.body.category = response.trace[1].result.category
        /\ response.body.confidence = response.trace[1].result.confidence
        /\ response.body.routing_config = DocumentedRouting(response.body.category)

\* a request with both flags off was answered while Jira and Slack are
\* configured
C7_Witness ==
    /\ Routed
    /\ ~response.request.ticket.create_jira
    /\ ~response.request.ticket.send_slack
    /\ JiraConfigured /\ SlackConfigured
    /\ response.status = 200
    /\ response.body.ticket_id = "TEST-002"

\* one flag off, the other call made
C7_WitnessOneOff ==
    /\ Routed
    /\ ~response.request.ticket.create_jira
    /\ response.request.ticket.send_slack
    /\ CallsOf("send_ticket_notification") # {}
    /\ response.status = 200

\* C8: when route_tickets_batch returns a response for n tickets, processed
\* is n, results has length n and results[i] answers the i-th ticket: it
\* has its ticket_id and an issue (a message) exactly if the ticket asked
\* for one.
C8_BatchOrder ==
    (Batched /\ response.status = 200) =>
        LET tickets == response.request.tickets
            results == response.body.results
        IN  /\ response.body.processed = Len(tickets)
            /\ Len(results) = Len(tickets)
            /\ \A i \in 1..Len(tickets) :
                  /\ results[i].ticket_id = tickets[i].ticket_id
                  /\ (results[i].jira_issue # Null) = tickets[i].create_jira
                  /\ (results[i].slack_message # Null) = tickets[i].send_slack

\* a batch of two different tickets was answered
C8_Witness ==
    /\ Batched
    /\ response.status = 200
    /\ Len(response.request.tickets) >= 2
    /\ response.request.tickets[1].ticket_id # response.request.tickets[2].ticket_id
    /\ response.body.processed = Len(response.request.tickets)

\* a dict {success: false, error: ...}
IsFailure(d) == d # Null /\ DOMAIN d = {"success", "error"} /\ ~d.success

\* the issue tracker (the notifier) failed while the request was handled
JiraFailed ==
    /\ response.request.ticket.create_jira /\ JiraConfigured
    /\ response.envs[1].jira # "created"
SlackFailed ==
    /\ response.request.ticket.send_slack /\ SlackConfigured
    /\ response.envs[1].slack # "ok"

\* C9: a failure of the issue tracker or of the notifier does not abort
\* route_ticket.  A failed create_issue (exception or non-201 status)
\* returns {success: false, error}, which becomes jira_issue; the
\* notification is still sent if asked for; the request succeeds.  A failed
\* send_message returns {success: false, error}, which becomes
\* slack_message; the request succeeds.  Neither call raises.
C9_FailuresDoNotAbort ==
    Routed =>
        /\ \A i \in 1..Len(response.trace) : ~response.trace[i].raised
        /\ JiraFailed =>
              /\ response.status = 200
              /\ IsFailure(response.body.jira_issue)
              /\ \A i \in CallsOf("create_issue") :
                    response.trace[i].result = response.body.jira_issue
              /\ response.request.ticket.send_slack =>
                    /\ CallsOf("send_ticket_notification") # {}
                    /\ response.body.slack_message # Null
        /\ SlackFailed =>
              /\ response.status = 200
              /\ IsFailure(response.body.slack_message)

\* the issue tracker raised an exception and the notification was sent all
\* the same
C9_Witness ==
    /\ Routed
    /\ JiraFailed /\ response.envs[1].jira = "exception"
    /\ response.request.ticket.send_slack
    /\ response.status = 200
    /\ response.body.slack_message.success

\* both collaborators failed
C9_WitnessBoth ==
    /\ Routed
    /\ JiraFailed /\ SlackFailed
    /\ response.status = 200

\* the text of the message that was posted, or that the mock pretends to
\* have posted
SentText(e) ==
    IF e.remote # <<>> THEN e.remote[1].json.text ELSE e.result.message.text

\* C10: the notification of route_ticket carries an issue key exactly if
\* create_jira was requested and the create_issue result has success=true,
\* and the key is then the issue_key of that result; when no issue was
\* asked for or its creation failed, the notification carries no key.
C10_NotificationKey ==
    Routed =>
        \A i \in CallsOf("send_ticket_notification") :
            LET e == response.trace[i]
                created == /\ response.request.ticket.create_jira
                           /\ response.body.jira_issue # Null
                           /\ response.body.jira_issue.success
            IN  /\ HasKey(e.jira_key) = created
                /\ created => e.jira_key = response.body.jira_issue.issue_key
                /\ SentText(e).jira = e.jira_key
                /\ e.remote # <<>> =>
                      Len(e.remote[1].json.blocks) = IF created THEN 4 ELSE 3

\* a notification was posted with the key of the issue just created
C10_Witness ==
    /\ Routed
    /\ response.status = 200
    /\ \E i \in CallsOf("send_ticket_notification") :
          /\ response.trace[i].remote # <<>>
          /\ HasKey(response.trace[i].jira_key)
          /\ SentText(response.trace[i]).jira = response.body.jira_issue.issue_key
          /\ response.body.jira_issue.issue_key.args[2] = MockKeyMax

\* a notification was posted without key after issue creation failed
C10_WitnessFailed ==
    /\ Routed
    /\ JiraFailed
    /\ \E i \in CallsOf("send_ticket_notification") :
          ~HasKey(response.trace[i].jira_key)

-----------------------------------------------------------------------------
(* Properties of WatsonXService. *)

\* a call on the watsonx adapter has returned
Generated ==
    /\ response # Null
    /\ response.op \in {"generate_response", "suggest_reply", "summarize_ticket"}

\* C11: when the generation backend is unavailable (credentials or SDK
\* missing, or initialisation failed), generate_response makes no backend
\* call and returns the mock result for the prompt, with success=true and
\* model "mock".
C11_UnavailableIsMock ==
    (Generated /\ ~response.available) =>
        /\ ~response.raised
        /\ response.remote = <<>>
        /\ response.result = _generate_mock_response(PromptOf(response.request))
        /\ response.result.success
        /\ response.result.model = "mock"
        /\ response.result.text
              \in {MockReplyText, MockSummaryText, MockGenericText}

\* generate_response was called directly while the credentials are there
\* and the SDK is missing
C11_Witness ==
    /\ Generated
    /\ response.op = "generate_response"
    /\ WatsonxConfigured
    /\ ~response.available
    /\ response.result.text = MockGenericText

\* C12: every result of generate_response, suggest_reply and
\* summarize_ticket has a text; when the backend is available and the call
\* fails, the result is success=false with an error and the text that the
\* prompt gets in mock mode; no call raises; a failure leaves the adapter
\* available.
C12_FailureKeepsText ==
    Generated =>
        /\ ~response.raised
        /\ "text" \in DOMAIN response.result
        /\ (response.available
                /\ response.outcome \in {"no_results", "exception"}) =>
              /\ ~response.result.success
              /\ "error" \in DOMAIN response.result
              /\ response.result.text
                    = _generate_mock_response(PromptOf(response.request)).text
              /\ _watsonx_service_instance.available

\* summarize_ticket failed at the backend and carries the canned summary
C12_Witness ==
    /\ Generated
    /\ response.op = "summarize_ticket"
    /\ response.available
    /\ response.outcome = "exception"
    /\ ~response.result.success
    /\ response.result.text = MockSummaryText
    /\ response.remote # <<>>

\* the result carries a canned text: the adapter is in mock mode or the
\* backend call failed
CannedText ==
    /\ Generated
    /\ ~response.available \/ response.outcome \in {"no_results", "exception"}

\* C20: the canned text is chosen from the lower-cased prompt by
\* precedence: the empathetic reply if it contains "suggest" or "response",
\* else the summary if it contains "summar", else the generic placeholder;
\* so suggest_reply in mock mode gives the empathetic reply for every
\* ticket text and category.
C20_MockTextPrecedence ==
    CannedText =>
        LET p == lower(PromptOf(response.request))
        IN  /\ (In(kw_suggest, p) \/ In(kw_response, p)) =>
                  response.result.text = MockReplyText
            /\ (~In(kw_suggest, p) /\ ~In(kw_response, p) /\ In(kw_summar, p)) =>
                  response.result.text = MockSummaryText
            /\ (~In(kw_suggest, p) /\ ~In(kw_response, p) /\ ~In(kw_summar, p)) =>
                  response.result.text = MockGenericText
            /\ response.op = "suggest_reply" =>
                  response.result.text = MockReplyText

\* a prompt that mentions both a summary and a response got the reply text
C20_Witness ==
    /\ CannedText
    /\ ~response.available
    /\ In(kw_summar, lower(PromptOf(response.request)))
    /\ In(kw_response, lower(PromptOf(response.request)))
    /\ response.result.text = MockReplyText

\* suggest_reply in mock mode
C20_WitnessSuggest ==
    /\ CannedText
    /\ ~response.available
    /\ response.op = "suggest_reply"
    /\ response.request.category = "feature_request"
    /\ response.result.text = MockReplyText

-----------------------------------------------------------------------------
(* The keyword classifier against the documented algorithm. *)

\* the documented order of the categories
ReferenceOrder ==
    <<"billing", "technical", "access", "general", "bug_report",
      "feature_request">>

\* the documented raw score, in tenths: 0.3 per keyword found, at most 1.0
ReferenceRaw(c, text) == IF 3 * Hits(c, text) > 10 THEN 10 ELSE 3 * Hits(c, text)

\* the sum of the documented raw scores
ReferenceTotal(text) ==
    ReferenceRaw("billing", text) + ReferenceRaw("technical", text)
        + ReferenceRaw("access", text) + ReferenceRaw("general", text)
        + ReferenceRaw("bug_report", text) + ReferenceRaw("feature_request", text)

\* C19: a keyword answer follows the documented algorithm: every score is
\* the clipped raw score divided by the sum of the raw scores, or 1.0 for
\* general and 0 for the others when all raw scores are 0; the category is
\* the first one, in the documented order, with the maximal score, and the
\* confidence is its score.
C19_ReferenceAlgorithm ==
    KeywordAnswer =>
        LET text == response.text
            scores == response.result.scores
            top == response.result.category
            total == ReferenceTotal(text)
        IN  /\ response.result.model = "mock-classifier"
            /\ \A c \in CategorySet :
                  /\ scores[c].den > 0
                  /\ IF total > 0
                     THEN scores[c].num * total
                            = ReferenceRaw(c, text) * scores[c].den
                     ELSE scores[c].num
                            = IF c = "general" THEN scores[c].den ELSE 0
            /\ \E i \in 1..Len(ReferenceOrder) :
                  /\ ReferenceOrder[i] = top
                  /\ \A j \in 1..Len(ReferenceOrder) :
                        scores[ReferenceOrder[j]].num * scores[top].den
                            <= scores[top].num * scores[ReferenceOrder[j]].den
                  /\ \A j \in 1..(i - 1) :
                        scores[ReferenceOrder[j]].num * scores[top].den
                            < scores[top].num * scores[ReferenceOrder[j]].den
            /\ response.result.confidence = scores[top]

\* technical (four keywords) and bug_report (five) are both clipped to 1.0
\* and tie; technical, the earlier one, is returned
C19_Witness ==
    /\ KeywordAnswer
    /\ Hits("technical", response.text) = 4
    /\ Hits("bug_report", response.text) = 5
    /\ response.result.category = "technical"
    /\ response.result.scores["technical"] = response.result.scores["bug_report"]
-----------------------------------------------------------------------------
(* Properties of classify_ticket and of the endpoints together. *)

\* a response of POST /classify is at hand
TicketClassified == response # Null /\ response.op = "classify_ticket"

\* the names of the calls of a trace, in order
Calls(trace) == [i \in DOMAIN trace |-> trace[i].call]

\* C13: classify_ticket classifies first, then calls suggest_reply exactly
\* if include_suggestion is set, with the text and the category just
\* classified, then summarize_ticket exactly if include_summary is set; the
\* suggestion and the summary of the response are the "text" of what these
\* calls returned, whatever their success flag, and null for a flag not set.
C13_SuggestionAndSummary ==
    TicketClassified =>
        LET req == response.request.ticket
            trace == response.trace
        IN  /\ response.status = 200
            /\ Calls(trace) =
                  <<"classify">>
                  \o (IF req.include_suggestion THEN <<"suggest_reply">> ELSE <<>>)
                  \o (IF req.include_summary THEN <<"summarize_ticket">> ELSE <<>>)
            /\ response.body.category = trace[1].result.category
            /\ IF req.include_suggestion
               THEN /\ trace[2].ticket_text = req.text
                    /\ trace[2].category = trace[1].result.category
                    /\ response.body.suggestion = trace[2].result.text
               ELSE response.body.suggestion = None
            /\ IF req.include_summary
               THEN /\ trace[Len(trace)].ticket_text = req.text
                    /\ response.body.summary = trace[Len(trace)].result.text
               ELSE response.body.summary = None

\* a suggestion was asked for without a summary, the backend call failed,
\* and the text of the failed result is the suggestion of the response
C13_Witness ==
    /\ TicketClassified
    /\ response.request.ticket.include_suggestion
    /\ ~response.request.ticket.include_summary
    /\ Len(response.trace) = 2
    /\ ~response.trace[2].result.success
    /\ response.body.suggestion = MockReplyText
    /\ response.body.summary = None

\* a response of one of the three endpoints is at hand
Answered ==
    response # Null /\ response.op \in {"classify_ticket", "route", "batch"}

\* no collaborator is configured: the classifier works by keywords, the
\* tracker has no auth, the notifier no token, the adapter no backend
NothingConfigured ==
    /\ _classifier_instance # Null => _classifier_instance.use_mock
    /\ _jira_service_instance # Null => _jira_service_instance.auth = Null
    /\ _slack_service_instance # Null =>
          ~Truthy(_slack_service_instance.bot_token)
    /\ _watsonx_service_instance # Null => ~_watsonx_service_instance.available
    /\ ~JiraConfigured /\ ~SlackConfigured

\* a payload marked as mock
MockPayload(result) ==
    /\ result # Null
    /\ DictGet(result, "success", FALSE)
    /\ \/ DictGet(result, "mock", FALSE)
       \/ DictGet(result, "model", None) = "mock"

\* C14: with no collaborator configured every request to /classify, /route
\* and /route/batch is answered with 200, and every issue, notification
\* and generation result in it is a mock payload obtained without a remote
\* call.
C14_MockModeInvariant ==
    (Answered /\ NothingConfigured) =>
        /\ response.status = 200
        /\ \A i \in DOMAIN response.trace :
              LET ev == response.trace[i]
              IN  /\ ~ev.raised
                  /\ IF ev.call = "classify"
                     THEN ev.result.model = "mock-classifier"
                     ELSE MockPayload(ev.result) /\ ev.remote = <<>>
        /\ response.op = "route" =>
              /\ response.body.jira_issue # Null =>
                    MockPayload(response.body.jira_issue)
              /\ response.body.slack_message # Null =>
                    MockPayload(response.body.slack_message)
        /\ response.op = "batch" =>
              \A k \in DOMAIN response.body.results :
                  LET b == response.body.results[k]
                  IN  /\ b.jira_issue # Null => MockPayload(b.jira_issue)
                      /\ b.slack_message # Null => MockPayload(b.slack_message)

\* a batch of two tickets was routed with nothing configured, an issue was
\* created and a notification sent
C14_Witness ==
    /\ Answered /\ NothingConfigured
    /\ response.op = "batch"
    /\ response.status = 200
    /\ Len(response.body.results) = 2
    /\ \E i \in DOMAIN response.trace : response.trace[i].call = "create_issue"
    /\ \E i \in DOMAIN response.trace :
          response.trace[i].call = "send_ticket_notification"
-----------------------------------------------------------------------------
(* Properties of the adapters. *)

\* an adapter has answered a call
AdapterAnswered == response # Null /\ "adapter" \in DOMAIN response

\* the adapter that answered was built without its credentials
BuiltUnconfigured ==
    CASE response.adapter = "jira" -> ~JiraConfigured
      [] response.adapter = "slack" -> ~SlackConfigured
      [] response.adapter = "watsonx" -> ~WatsonxConfigured

\* the instance is in mock mode
InMockMode(adapter, self) ==
    CASE adapter = "jira" -> self.auth = Null
      [] adapter = "slack" -> ~Truthy(self.bot_token)
      [] adapter = "watsonx" -> ~self.available

\* the instance that the getter of an adapter gives from now on
InstanceOf(adapter) ==
    CASE adapter = "jira" -> _jira_service_instance
      [] adapter = "slack" -> _slack_service_instance
      [] adapter = "watsonx" -> _watsonx_service_instance

\* a success payload that says it is a mock
MockSuccess(result) ==
    /\ result # Null
    /\ DictGet(result, "success", FALSE)
    /\ \/ DictGet(result, "mock", FALSE)
       \/ DictGet(result, "model", None) = "mock"
       \/ DictGet(result, "message", None) = "Mock update successful"

\* C16: an adapter built without its credentials is in mock mode at every
\* call, whatever calls came before: the call returns a mock success
\* payload, makes no remote call, and leaves the instance, which stays the
\* one the getter gives, in mock mode.
C16_PermanentMockMode ==
    (AdapterAnswered /\ BuiltUnconfigured) =>
        /\ InMockMode(response.adapter, response.before)
        /\ ~response.raised
        /\ MockSuccess(response.result)
        /\ response.remote = <<>>
        /\ InMockMode(response.adapter, response.after)
        /\ InstanceOf(response.adapter) = response.after

\* all three adapters exist and are in mock mode, and an issue update has
\* just been answered by the Jira adapter, which has the e-mail address
\* but no token
C16_Witness ==
    /\ AdapterAnswered /\ BuiltUnconfigured
    /\ response.op = "update_issue"
    /\ Truthy(settings.JIRA_EMAIL)
    /\ _slack_service_instance # Null
    /\ _watsonx_service_instance # Null
    /\ ~_watsonx_service_instance.available
-----------------------------------------------------------------------------
(* Properties of the handlers under unexpected exceptions. *)

\* the handler of the request makes the call `point`, if no call before it
\* raises
Reaches(op, req, point) ==
    CASE point \in {"get_classifier", "classify", "response"} -> TRUE
      [] point \in {"get_jira_service", "create_issue"} ->
            op = "route" /\ req.create_jira
      [] point \in {"get_slack_service", "send_ticket_notification"} ->
            op = "route" /\ req.send_slack
      [] point = "get_watsonx_service" ->
            op = "classify_ticket"
                /\ (req.include_suggestion \/ req.include_summary)
      [] point = "suggest_reply" ->
            op = "classify_ticket" /\ req.include_suggestion
      [] point = "summarize_ticket" ->
            op = "classify_ticket" /\ req.include_summary

\* the prefix of the detail of a failure of the endpoint
ErrorFormat(op) ==
    IF op = "route" THEN "Routing error: {}" ELSE "Classification error: {}"

\* C18: if an exception that no callee handles arises in a call that
\* classify_ticket or route_ticket makes, the request ends in status 500
\* with the detail "Classification error: <message>" or "Routing error:
\* <message>" and without a body; otherwise it ends in 200 with a body that
\* holds every record asked for.
C18_SingleFailure ==
    (response # Null /\ response.op \in {"route", "classify_ticket"}) =>
        LET req == response.request.ticket
            point == response.envs[1].unexpected
        IN  IF Reaches(response.op, req, point)
            THEN /\ response.status = 500
                 /\ response.detail = Format(ErrorFormat(response.op), <<point>>)
                 /\ response.body = Null
            ELSE /\ response.status = 200
                 /\ response.detail = Null
                 /\ response.op = "route" =>
                       /\ req.create_jira => response.body.jira_issue # Null
                       /\ req.send_slack => response.body.slack_message # Null
                 /\ response.op = "classify_ticket" =>
                       /\ req.include_suggestion =>
                             response.body.suggestion # None
                       /\ req.include_summary => response.body.summary # None

\* the issue had been created when the notification raised: the request
\* ends in the failure, the issue is not reported
C18_Witness ==
    /\ response # Null /\ response.op = "route"
    /\ response.envs[1].unexpected = "send_ticket_notification"
    /\ Len(response.trace) = 3
    /\ response.trace[2].call = "create_issue"
    /\ response.trace[2].result.success
    /\ response.status = 500
-----------------------------------------------------------------------------
(* Properties of GmailService. *)

\* fetch_tickets has returned
Fetched == response # Null /\ response.op = "fetch_tickets"

\* the result is the three canned tickets
Canned(result) ==
    /\ result # Null
    /\ [i \in DOMAIN result |-> result[i].id] = <<"mock-1", "mock-2", "mock-3">>
    /\ \A i \in DOMAIN result : result[i].source = "mock"

\* the ids of the listed messages that could be parsed, in order
RECURSIVE ParsedIds(_)
ParsedIds(messages) ==
    IF messages = <<>> THEN <<>>
    ELSE (IF Head(messages).parse # "error" THEN <<Head(messages).id>> ELSE <<>>)
         \o ParsedIds(Tail(messages))

\* every entry of the listing carries the id of its message
WellFormed(listing) == \A i \in DOMAIN listing.messages : listing.messages[i].has_id

\* C17: fetch_tickets never raises.  It returns the three canned tickets
\* mock-1, mock-2, mock-3 with source 'mock' if the service is not
\* authenticated or the listing fails (the call raises, or an entry of its
\* answer has no id).  Otherwise it returns, in order, one ticket with
\* source 'gmail' for each listed message that could be parsed: a message
\* that cannot be parsed is left out and the canned tickets are not used.
C17_FetchNeverRaises ==
    Fetched =>
        /\ ~response.raised
        /\ IF \/ ~response.authenticated
              \/ response.listing.outcome # "listed"
              \/ ~WellFormed(response.listing)
           THEN Canned(response.result)
           ELSE /\ [i \in DOMAIN response.result |-> response.result[i].id]
                      = ParsedIds(response.listing.messages)
                /\ \A i \in DOMAIN response.result :
                      response.result[i].source = "gmail"

\* two messages were listed, the first could not be parsed: the result is
\* the ticket of the second
C17_Witness ==
    /\ Fetched
    /\ response.authenticated
    /\ Len(response.listing.messages) = 2
    /\ response.listing.messages[1].parse = "error"
    /\ response.listing.messages[1].has_id
    /\ Len(response.result) = 1
    /\ response.result[1].id = response.listing.messages[2].id
    /\ response.result[1].source = "gmail"
-----------------------------------------------------------------------------
(* Properties of the singletons. *)

\* a coroutine has run
Ran == response # Null /\ response.op = "run"

\* C15: whatever the order in which the event loop runs the waiting
\* requests, each service class is instantiated at most once in the
\* process, and a global that held an instance before a request ran holds
\* the same instance after it.
C15_ConstructedOnce ==
    /\ \A s \in Singletons : constructions[s] <= 1
    /\ Ran =>
          \A s \in Singletons \ {"gmail"} :
              /\ response.before[s] # Null =>
                    response.after[s] = response.before[s]
              /\ globals[s] = response.after[s]

\* two first requests arrived together with no start-up hook run before:
\* one has run and constructed the classifier, the other is still waiting
C15_Witness ==
    /\ Ran
    /\ response.task = "route"
    /\ response.before.classifier = Null
    /\ response.after.classifier # Null
    /\ constructions.classifier = 1
    /\ constructions.jira = 1
    /\ BagIn("classify_ticket", pending)
-----------------------------------------------------------------------------
(* More properties of route_ticket and route_tickets_batch. *)

\* the create_issue call that the Jira step of route_ticket makes for a
\* ticket classified as `category`
JiraCallFor(category) ==
    create_jira_step(globals, ConcurrentTicket, category,
                     DictGet(settings.CATEGORY_ROUTING, category,
                             default_routing),
                     QuietRoute).trace[1]

\* C21: every create_issue call that route_ticket makes carries the
\* priority of the routing entry of the classified category (High for
\* billing and access, Medium for technical, Low for general, Medium for
\* bug_report and feature_request) and the labels [category, "ai-triaged"]
\* with the classified category.
C21_PriorityAndLabels ==
    Routed =>
        \A i \in CallsOf("create_issue") :
            LET category == response.trace[1].result.category
            IN  /\ response.trace[i].priority
                      = DocumentedRouting(category).jira_priority
                /\ response.trace[i].labels = <<category, "ai-triaged">>
                /\ response.trace[i].issue_type = "Task"
                /\ \A c \in CategorySet :
                      /\ JiraCallFor(c).priority
                            = DocumentedRouting(c).jira_priority
                      /\ JiraCallFor(c).labels = <<c, "ai-triaged">>

\* an issue was created for a billing ticket with priority High
C21_Witness ==
    /\ Routed
    /\ CallsOf("create_issue") # {}
    /\ response.trace[1].result.category = "billing"
    /\ \A i \in CallsOf("create_issue") : response.trace[i].priority = "High"

\* the calls a route request asks for, in the order of the handler
StepsOf(ticket) ==
    <<"classify">>
    \o (IF ticket.create_jira THEN <<"create_issue">> ELSE <<>>)
    \o (IF ticket.send_slack THEN <<"send_ticket_notification">> ELSE <<>>)

\* C22: route_ticket makes its calls in the order classify, create_issue,
\* send_ticket_notification, each at most once and each only after the one
\* before has returned its result (a success or a failure payload); the
\* issue is created for the category and with the routing entry that
\* classify and the lookup gave, the notification carries what
\* create_issue returned, and the response is made after the last call.
C22_StepOrder ==
    Routed =>
        LET ticket == response.request.ticket
            trace == response.trace
        IN  /\ Calls(trace) = StepsOf(ticket)
            /\ \A i \in DOMAIN trace : ~trace[i].raised /\ trace[i].result # Null
            /\ \A kind \in {"classify", "create_issue",
                             "send_ticket_notification"} :
                  Cardinality(CallsOf(kind)) <= 1
            /\ \A i \in CallsOf("create_issue") :
                  /\ i = 2
                  /\ trace[i].labels[1] = trace[1].result.category
                  /\ response.body.jira_issue = trace[i].result
            /\ \A i \in CallsOf("send_ticket_notification") :
                  /\ i = Len(trace)
                  /\ trace[i].category = trace[1].result.category
                  /\ trace[i].jira_key = jira_key_of(response.body.jira_issue)
                  /\ response.body.slack_message = trace[i].result
            /\ response.status = 200
            /\ response.body.category = trace[1].result.category

\* all three calls were made, the issue tracker failed, the notification
\* went out after it without a key
C22_Witness ==
    /\ Routed
    /\ Len(response.trace) = 3
    /\ ~response.trace[2].result.success
    /\ response.trace[3].call = "send_ticket_notification"
    /\ response.trace[3].jira_key = Null
    /\ response.trace[3].result.success

\* the calls of the tickets of a batch, one ticket after the other, each
\* with the ticket it is made for
RECURSIVE BatchSteps(_)
BatchSteps(tickets) ==
    IF tickets = <<>> THEN <<>>
    ELSE [i \in DOMAIN StepsOf(Head(tickets)) |->
              [call |-> StepsOf(Head(tickets))[i],
               ticket_id |-> Head(tickets).ticket_id,
               text |-> Head(tickets).text]]
         \o BatchSteps(Tail(tickets))

\* the position of the ticket in the batch that the i-th call is made for
RECURSIVE TicketOfCall(_, _)
TicketOfCall(tickets, i) ==
    IF i <= Len(StepsOf(Head(tickets))) THEN 1
    ELSE 1 + TicketOfCall(Tail(tickets), i - Len(StepsOf(Head(tickets))))

RECURSIVE FailingTicket(_, _, _)
FailingTicket(tickets, envs, i) ==
    IF i > Len(tickets) THEN 0
    ELSE IF /\ envs[i].unexpected # "none"
            /\ Reaches("route", tickets[i], envs[i].unexpected)
    THEN i
    ELSE FailingTicket(tickets, envs, i + 1)

\* the calls that reached a collaborator and succeeded there
Effects(trace) ==
    {i \in DOMAIN trace :
        /\ trace[i].call \in {"create_issue", "send_ticket_notification"}
        /\ ~trace[i].raised
        /\ trace[i].result.success}

\* C24: if routing the k-th ticket of a batch raises, route_tickets_batch
\* makes no call for a later ticket and answers with one 500 whose detail
\* is "Batch routing error: <message>" and with no results, those of the
\* tickets before k included; the calls for the tickets before k have
\* all been made and have returned, and nothing is called afterwards to
\* take them back. If no ticket raises, every ticket has its result.
C24_BatchAllOrNothing ==
    Batched =>
        LET tickets == response.request.tickets
            trace == response.trace
            k == FailingTicket(tickets, response.envs, 1)
            before == BatchSteps(SubSeq(tickets, 1, k - 1))
        IN  IF k = 0
            THEN /\ response.status = 200
                 /\ response.body.processed = Len(tickets)
            ELSE /\ response.status = 500
                 /\ response.body = Null
                 /\ response.detail.fmt = "Batch routing error: {}"
                 /\ Len(trace) >= Len(before)
                 /\ Len(trace) <= Len(before) + Len(StepsOf(tickets[k]))
                 /\ \A i \in 1..Len(before) :
                       /\ trace[i].call = before[i].call
                       /\ trace[i].ticket_id = before[i].ticket_id
                       /\ ~trace[i].raised /\ trace[i].result # Null
                 /\ \A i \in (Len(before) + 1)..Len(trace) :
                       /\ trace[i].call = StepsOf(tickets[k])[i - Len(before)]
                       /\ trace[i].ticket_id = tickets[k].ticket_id

\* the second ticket raised after the issue of the first had been created
\* and its notification sent: the answer is the 500 alone
C24_Witness ==
    /\ Batched
    /\ Len(response.request.tickets) = 2
    /\ FailingTicket(response.request.tickets, response.envs, 1) = 2
    /\ response.status = 500
    /\ response.body = Null
    /\ {2, 3} \subseteq Effects(response.trace)
    /\ response.trace[2].ticket_id = "TEST-001"
    /\ response.trace[2].remote # <<>>

-----------------------------------------------------------------------------
(* More properties of the keyword classifier. *)

\* the keywords of a category, as a set
KeywordsOf(c) == {keywords[c][i] : i \in 1..Len(keywords[c])}

\* C25: the keyword classifier answers "bug_report" only for texts that
\* contain "defect": every other keyword of bug_report is a keyword of
\* technical too, and technical comes before bug_report in CATEGORIES, so
\* that it wins the ties; a text with "defect" still gets another category
\* when technical and bug_report are both clipped to 1.0.
C25_BugReportNeedsDefect ==
    /\ KeywordsOf("bug_report") \ {kw_defect} \subseteq KeywordsOf("technical")
    /\ IndexOf("technical") < IndexOf("bug_report")
    /\ KeywordAnswer =>
          /\ response.result.category = "bug_report"
                => /\ In(kw_defect, lower(response.text))
                   /\ Hits("bug_report", response.text)
                         > Hits("technical", response.text)
          /\ (/\ KeywordWeight * Hits("technical", response.text) >= ScoreOne
              /\ KeywordWeight * Hits("bug_report", response.text) >= ScoreOne)
                => response.result.category # "bug_report"

\* a text with "defect" and four keywords shared by technical and
\* bug_report: both are clipped, the answer is technical
C25_Witness ==
    /\ KeywordAnswer
    /\ In(kw_defect, lower(response.text))
    /\ Hits("bug_report", response.text) = 5
    /\ Hits("technical", response.text) = 4
    /\ response.result.category = "technical"
    /\ response.result.scores["bug_report"] = response.result.scores["technical"]

\* a text with "defect" answered with bug_report
C25_WitnessDefect ==
    /\ KeywordAnswer
    /\ response.result.category = "bug_report"
    /\ In(kw_defect, lower(response.text))

-----------------------------------------------------------------------------
(* The channel of a notification. *)

\* the channel a send_ticket_notification call posted to: the channel of
\* the chat.postMessage payload, or the one the mock message names
SentTo(event) ==
    IF event.remote # <<>> THEN event.remote[1].json.channel
    ELSE event.result.channel

\* C26: for every category, with or without an entry in CATEGORY_ROUTING,
\* the channel that send_ticket_notification posts to is the slack_channel
\* of the routing_config of the same response: the lookup of route_ticket
\* (default: settings.SLACK_CHANNEL_ID) and the one of the notifier
\* (default: the adapter's default_channel) give the same channel.
C26_ChannelsAgree ==
    /\ Routed =>
          \A i \in CallsOf("send_ticket_notification") :
              /\ response.trace[i].category = response.body.category
              /\ SentTo(response.trace[i])
                    = response.body.routing_config.slack_channel
    /\ \A c \in CategorySet :
          target_channel(get_slack_service(_slack_service_instance), c, None)
              = DictGet(settings.CATEGORY_ROUTING, c, default_routing).slack_channel

\* a ticket of a category without an entry was posted to Slack while the
\* default channel is overridden
C26_Witness ==
    /\ Routed
    /\ response.body.category = "bug_report"
    /\ settings.SLACK_CHANNEL_ID = "#triage"
    /\ CallsOf("send_ticket_notification") # {}
    /\ \A i \in CallsOf("send_ticket_notification") :
          /\ response.trace[i].remote # <<>>
          /\ response.trace[i].remote[1].json.channel = "#triage"
          /\ response.trace[i].result.success

\* a ticket of a category with an entry was notified in mock mode
C26_WitnessMapped ==
    /\ Routed
    /\ response.body.category = "billing"
    /\ \E i \in CallsOf("send_ticket_notification") :
          /\ response.trace[i].remote = <<>>
          /\ response.trace[i].result.channel
                = settings.CATEGORY_ROUTING.billing.slack_channel

-----------------------------------------------------------------------------
(* The canned summary. *)

\* the ticket text mentions a suggestion or a response, in any case
MentionsReply(ticket_text) ==
    In(kw_suggest, lower(ticket_text)) \/ In(kw_response, lower(ticket_text))

\* C27: in mock mode summarize_ticket returns the canned summary text if
\* and only if the ticket text contains neither "suggest" nor "response",
\* in any case; otherwise it returns the canned reply text: the fixed
\* part of the prompt contains "summar" and neither of the two, and the
\* mock looks for "suggest" and "response" in the whole prompt first.
C27_MockSummary ==
    /\ In(kw_summar, lower(summarize_prompt(<<>>)))
    /\ ~MentionsReply(summarize_prompt(<<>>))
    /\ (Generated /\ response.op = "summarize_ticket" /\ ~response.available) =>
          /\ ~response.raised
          /\ response.remote = <<>>
          /\ response.result.success
          /\ response.result.text
                = IF MentionsReply(response.request.ticket_text)
                  THEN MockReplyText ELSE MockSummaryText
          /\ response.result.text = MockSummaryText
                <=> ~MentionsReply(response.request.ticket_text)

\* a ticket that says "No response" was summarized in mock mode: the
\* summary is the canned reply
C27_Witness ==
    /\ Generated /\ response.op = "summarize_ticket" /\ ~response.available
    /\ In(kw_response, lower(response.request.ticket_text))
    /\ response.result.text = MockReplyText

\* a ticket without the two words got the canned summary, one with
\* "Suggested" the canned reply
C27_WitnessSummary ==
    /\ Generated /\ response.op = "summarize_ticket" /\ ~response.available
    /\ ~MentionsReply(response.request.ticket_text)
    /\ response.result.text = MockSummaryText

C27_WitnessSuggest ==
    /\ Generated /\ response.op = "summarize_ticket" /\ ~response.available
    /\ In(kw_suggest, lower(response.request.ticket_text))
    /\ ~In(kw_response, lower(response.request.ticket_text))
    /\ response.result.text = MockReplyText

====
